---- MODULE Spec2Model ----
(***************************************************************************)
(* Change-detection pipeline of competitor-intel-shopify-app:              *)
(* monitor.server.ts (checkPage, checkCompetitor), scheduler.server.ts     *)
(* (checkPageWorker), differ.server.ts, analyzer.server.ts,                *)
(* priceExtractor.server.ts and notifier.server.ts.                        *)
(*                                                                         *)
(* Money is counted in thousandths of a currency unit (50.00 = 50000), so  *)
(* that the DECIMAL(10,2) columns of the store round what they are given.  *)
(* A text is the sequence of its lines; a line is a positive number and 0  *)
(* stands for a line that is empty after trimming.                         *)
(***************************************************************************)
EXTENDS Integers, Sequences, FiniteSets, TLC

\* ---------------------------------------------------------------- values

\* number | null
Null == [some |-> FALSE, v |-> 0]
Some(x) == [some |-> TRUE, v |-> x]

Abs(x) == IF x < 0 THEN -x ELSE x

Max(a, b) == IF a >= b THEN a ELSE b

Range(s) == {s[i] : i \in 1..Len(s)}

\* a DECIMAL(10,2) column keeps two decimals: half rounds away from zero
RoundCents(x) == IF x >= 0 THEN ((x + 5) \div 10) * 10 ELSE -((((-x) + 5) \div 10) * 10)

ToDecimal(p) == IF p.some THEN Some(RoundCents(p.v)) ELSE Null

decimalToNumber(value) == IF value.some THEN Some(value.v) ELSE Null

\* ---------------------------------------------------------------- bounds

\* check cycles (checkPage, checkPageWorker) per behaviour, one bound for
\* each specification
MaxChecks == 2
MaxEnvChecks == 2
MaxNotifyChecks == 3
MaxBatchChecks == 3
MaxWorkerChecks == 3
MaxRaceChecks == 3
MaxRetentionChecks == 12
MaxTierChecks == 2

\* ticks a scrape call is followed beyond its timeout
MaxOvertime == 2

\* lines of a text given to compareSnapshots
MaxLines == 3

\* checks of a page whose price never moves
MaxSteadyChecks == 3

\* checks while snapshots are pruned
MaxPruneChecks == 13

\* checks of the Express application
MaxLegacyChecks == 32

\* minutes of scheduler time, and page checks made by scheduled runs
MaxClock == 20
MaxCronChecks == 3

\* ------------------------------------------------------ program constants

DEFAULT_MIN_PERCENT == 1
DEFAULT_MIN_AMOUNT == 500
HashModulus == 1000003
RetentionCount == 10

PRICE_CHANGE_THRESHOLDS == [minPercentChange |-> DEFAULT_MIN_PERCENT, minAmountChange |-> DEFAULT_MIN_AMOUNT]

\* PRICE_MIN_PERCENT / PRICE_MIN_AMOUNT raised in the environment
StrictThresholds == [minPercentChange |-> 20, minAmountChange |-> 10000]

Confidences == {"high", "medium", "low", "none"}

Significances == {"none", "low", "medium", "high"}

SigRank(s) == CASE s = "none" -> 0 [] s = "low" -> 1 [] s = "medium" -> 2 [] s = "high" -> 3 [] OTHER -> -1

\* ---------------------------------------------------------------- scraper

\* Scraper.scrape: split into lines, trim, drop the empty ones
NormalizeText(rawLines) == SelectSeq(rawLines, LAMBDA l : l # 0)

RECURSIVE HashFrom(_, _)
HashFrom(h, lines) == IF lines = <<>> THEN h ELSE HashFrom((h * 31 + Head(lines)) % HashModulus, Tail(lines))

\* sha256 of the normalized text, truncated: an equality oracle on texts
ContentHash(text) == HashFrom(7, text)

\* ----------------------------------------------------------------- differ

\* compareSnapshots without the floor of 1 under the ratio
compareSnapshotsNoFloor(oldText, newText) ==
  LET oldLines == SelectSeq(oldText, LAMBDA l : l # 0)
      newLines == SelectSeq(newText, LAMBDA l : l # 0)
      oldSet == Range(oldLines)
      newSet == Range(newLines)
      added == SelectSeq(newLines, LAMBDA l : l \notin oldSet)
      removed == SelectSeq(oldLines, LAMBDA l : l \notin newSet)
  IN  [added |-> added,
       removed |-> removed,
       addedCount |-> Len(added),
       removedCount |-> Len(removed),
       totalOldLines |-> Len(oldLines),
       totalNewLines |-> Len(newLines),
       ratioNum |-> Len(added) + Len(removed),
       ratioDen |-> Max(Len(oldLines), Len(newLines)),
       hasChanges |-> Len(added) > 0 \/ Len(removed) > 0]

compareSnapshots(oldText, newText) ==
  LET oldLines == SelectSeq(oldText, LAMBDA l : l # 0)
      newLines == SelectSeq(newText, LAMBDA l : l # 0)
      oldSet == Range(oldLines)
      newSet == Range(newLines)
      added == SelectSeq(newLines, LAMBDA l : l \notin oldSet)
      removed == SelectSeq(oldLines, LAMBDA l : l \notin newSet)
  IN  [added |-> added,
       removed |-> removed,
       addedCount |-> Len(added),
       removedCount |-> Len(removed),
       totalOldLines |-> Len(oldLines),
       totalNewLines |-> Len(newLines),
       ratioNum |-> Len(added) + Len(removed),
       ratioDen |-> Max(Max(Len(oldLines), Len(newLines)), 1),
       hasChanges |-> Len(added) > 0 \/ Len(removed) > 0]

\* determineSignificance without the rule for more than 20 changed lines
determineSignificanceByRatioOnly(diff) ==
  IF ~diff.hasChanges THEN "none"
  ELSE IF 10 * diff.ratioNum > 3 * diff.ratioDen THEN "high"
  ELSE IF 10 * diff.ratioNum > diff.ratioDen THEN "medium"
  ELSE "low"

\* determineSignificance with the rule for more than 20 changed lines first
determineSignificanceCountFirst(diff) ==
  IF ~diff.hasChanges THEN "none"
  ELSE IF diff.addedCount + diff.removedCount > 20 THEN "medium"
  ELSE IF 10 * diff.ratioNum > 3 * diff.ratioDen THEN "high"
  ELSE IF 10 * diff.ratioNum > diff.ratioDen THEN "medium"
  ELSE "low"

\* changeRatio = ratioNum / ratioDen; "> 0.3" is 10 * num > 3 * den
determineSignificance(diff) ==
  IF ~diff.hasChanges THEN "none"
  ELSE IF 10 * diff.ratioNum > 3 * diff.ratioDen THEN "high"
  ELSE IF 10 * diff.ratioNum > diff.ratioDen THEN "medium"
  ELSE IF diff.addedCount + diff.removedCount > 20 THEN "medium"
  ELSE "low"

\* -------------------------------------------------------- price delta engine

\* the low tier with its floors taken as the thresholds themselves
getConfidenceAdjustedThresholdsFixedLow(confidence, baseThresholds) ==
  CASE confidence \in {"high", "medium"} ->
         [minPercentChange |-> baseThresholds.minPercentChange,
          minAmountChange |-> baseThresholds.minAmountChange,
          shouldAlert |-> TRUE]
    [] confidence = "low" ->
         [minPercentChange |-> 5, minAmountChange |-> 2000, shouldAlert |-> TRUE]
    [] OTHER ->
         [minPercentChange |-> baseThresholds.minPercentChange,
          minAmountChange |-> baseThresholds.minAmountChange,
          shouldAlert |-> FALSE]

getConfidenceAdjustedThresholds(confidence, baseThresholds) ==
  CASE confidence \in {"high", "medium"} ->
         [minPercentChange |-> baseThresholds.minPercentChange,
          minAmountChange |-> baseThresholds.minAmountChange,
          shouldAlert |-> TRUE]
    [] confidence = "low" ->
         [minPercentChange |-> Max(baseThresholds.minPercentChange, 5),
          minAmountChange |-> Max(baseThresholds.minAmountChange, 2000),
          shouldAlert |-> TRUE]
    [] OTHER ->
         [minPercentChange |-> baseThresholds.minPercentChange,
          minAmountChange |-> baseThresholds.minAmountChange,
          shouldAlert |-> FALSE]

\* deltaPercent is kept in hundredths of a percent, truncated toward zero
PercentOf(deltaAmount, oldPrice) ==
  LET q == (Abs(deltaAmount) * 10000) \div Abs(oldPrice)
  IN  IF (deltaAmount < 0) = (oldPrice < 0) THEN q ELSE -q

\* computePriceDelta asking for the amount and the percentage together
computePriceDeltaBothRequired(oldPrice, newPrice, thresholds) ==
  IF ~oldPrice.some /\ ~newPrice.some THEN
    [oldPrice |-> Null, newPrice |-> Null, deltaAmount |-> Null, deltaPercent |-> Null,
     isMeaningful |-> FALSE, direction |-> "unknown"]
  ELSE IF ~oldPrice.some THEN
    [oldPrice |-> Null, newPrice |-> newPrice, deltaAmount |-> Null, deltaPercent |-> Null,
     isMeaningful |-> TRUE, direction |-> "unknown"]
  ELSE IF ~newPrice.some THEN
    [oldPrice |-> oldPrice, newPrice |-> Null, deltaAmount |-> Null, deltaPercent |-> Null,
     isMeaningful |-> TRUE, direction |-> "unknown"]
  ELSE
    LET deltaAmount == newPrice.v - oldPrice.v
        deltaPercent == IF oldPrice.v # 0 THEN Some(PercentOf(deltaAmount, oldPrice.v)) ELSE Null
        absDeltaAmount == Abs(deltaAmount)
        absDeltaPercent == IF deltaPercent.some THEN Abs(deltaPercent.v) ELSE 0
    IN  [oldPrice |-> oldPrice,
         newPrice |-> newPrice,
         deltaAmount |-> Some(deltaAmount),
         deltaPercent |-> deltaPercent,
         isMeaningful |-> /\ absDeltaAmount >= thresholds.minAmountChange
                          /\ absDeltaPercent >= thresholds.minPercentChange * 100,
         direction |-> IF deltaAmount > 0 THEN "increase"
                       ELSE IF deltaAmount < 0 THEN "decrease" ELSE "unchanged"]

computePriceDelta(oldPrice, newPrice, thresholds) ==
  IF ~oldPrice.some /\ ~newPrice.some THEN
    [oldPrice |-> Null, newPrice |-> Null, deltaAmount |-> Null, deltaPercent |-> Null,
     isMeaningful |-> FALSE, direction |-> "unknown"]
  ELSE IF ~oldPrice.some THEN
    [oldPrice |-> Null, newPrice |-> newPrice, deltaAmount |-> Null, deltaPercent |-> Null,
     isMeaningful |-> TRUE, direction |-> "unknown"]
  ELSE IF ~newPrice.some THEN
    [oldPrice |-> oldPrice, newPrice |-> Null, deltaAmount |-> Null, deltaPercent |-> Null,
     isMeaningful |-> TRUE, direction |-> "unknown"]
  ELSE
    LET deltaAmount == newPrice.v - oldPrice.v
        deltaPercent == IF oldPrice.v # 0 THEN Some(PercentOf(deltaAmount, oldPrice.v)) ELSE Null
        absDeltaAmount == Abs(deltaAmount)
        absDeltaPercent == IF deltaPercent.some THEN Abs(deltaPercent.v) ELSE 0
    IN  [oldPrice |-> oldPrice,
         newPrice |-> newPrice,
         deltaAmount |-> Some(deltaAmount),
         deltaPercent |-> deltaPercent,
         isMeaningful |-> \/ absDeltaAmount >= thresholds.minAmountChange
                          \/ absDeltaPercent >= thresholds.minPercentChange * 100,
         direction |-> IF deltaAmount > 0 THEN "increase"
                       ELSE IF deltaAmount < 0 THEN "decrease" ELSE "unchanged"]

\* ---------------------------------------------------------- price extractor

\* DEFAULT_CONFIG, in thousandths: 0.01 and 1,000,000
MIN_PRICE == 10
MAX_PRICE == 1000000000

isValidPrice(value) == value >= MIN_PRICE /\ value <= MAX_PRICE

\* A price string is a sequence of characters; "pound" and "euro" stand for
\* the signs of the two currencies.
DigitChars == {"0", "1", "2", "3", "4", "5", "6", "7", "8", "9"}

\* the string from its first to its last character that is not a blank
trim(str) ==
  LET inked == {i \in 1..Len(str) : str[i] # " "}
  IN  IF inked = {} THEN <<>>
      ELSE SubSeq(str, CHOOSE i \in inked : \A j \in inked : i <= j,
                  CHOOSE i \in inked : \A j \in inked : j <= i)

includes(str, part) ==
  \E i \in 1..(Len(str) - Len(part) + 1) : SubSeq(str, i, i + Len(part) - 1) = part

\* the letters of the inputs that have an upper case
toUpperCase(str) ==
  [i \in 1..Len(str) |->
     CASE str[i] = "e" -> "E" [] str[i] = "u" -> "U" [] str[i] = "r" -> "R"
       [] OTHER -> str[i]]

\* CURRENCY_CODES and CURRENCY_SYMBOLS in the order of the tables, up to the
\* entries that the inputs can match
CURRENCY_CODES ==
  << [chars |-> <<"U", "S", "D">>, code |-> "USD"], [chars |-> <<"G", "B", "P">>, code |-> "GBP"],
     [chars |-> <<"E", "U", "R">>, code |-> "EUR"] >>

CURRENCY_SYMBOLS ==
  << [symbol |-> <<"$">>, code |-> "USD"], [symbol |-> <<"pound">>, code |-> "GBP"],
     [symbol |-> <<"euro">>, code |-> "EUR"] >>

\* the first code contained in the upper-cased string, else the first
\* symbol contained in the string, else null
findCurrency(cleaned) ==
  LET codes == {i \in 1..Len(CURRENCY_CODES) : includes(toUpperCase(cleaned), CURRENCY_CODES[i].chars)}
      symbols == {i \in 1..Len(CURRENCY_SYMBOLS) : includes(cleaned, CURRENCY_SYMBOLS[i].symbol)}
      first(set) == CHOOSE i \in set : \A j \in set : i <= j
  IN  IF codes # {} THEN Some(CURRENCY_CODES[first(codes)].code)
      ELSE IF symbols # {} THEN Some(CURRENCY_SYMBOLS[first(symbols)].code)
      ELSE Null

\* replace(/[^\d.,\-\s]/g, "")
NumericChars(str) == SelectSeq(str, LAMBDA c : c \in DigitChars \union {".", ",", "-", " "})

Without(str, char) == SelectSeq(str, LAMBDA c : c # char)

IndicesOf(str, char) == {i \in 1..Len(str) : str[i] = char}

lastIndexOf(str, char) == CHOOSE i \in IndicesOf(str, char) : \A j \in IndicesOf(str, char) : j <= i

\* replace(",", "."): the first comma only
ReplaceFirstComma(str) ==
  LET first == CHOOSE i \in IndicesOf(str, ",") : \A j \in IndicesOf(str, ",") : i <= j
  IN  IF IndicesOf(str, ",") = {} THEN str
      ELSE [i \in 1..Len(str) |-> IF i = first THEN "." ELSE str[i]]

RECURSIVE LeadingDigits(_)
LeadingDigits(str) ==
  IF str # <<>> /\ Head(str) \in DigitChars THEN <<Head(str)>> \o LeadingDigits(Tail(str))
  ELSE <<>>

RECURSIVE DigitsValue(_)
DigitsValue(digits) ==
  IF digits = <<>> THEN 0
  ELSE LET c == digits[Len(digits)]
       IN  10 * DigitsValue(SubSeq(digits, 1, Len(digits) - 1))
             + (CASE c = "0" -> 0 [] c = "1" -> 1 [] c = "2" -> 2 [] c = "3" -> 3 [] c = "4" -> 4
                  [] c = "5" -> 5 [] c = "6" -> 6 [] c = "7" -> 7 [] c = "8" -> 8 [] c = "9" -> 9)

RECURSIVE WithoutTrailingZeros(_)
WithoutTrailingZeros(digits) ==
  IF digits # <<>> /\ digits[Len(digits)] = "0"
  THEN WithoutTrailingZeros(SubSeq(digits, 1, Len(digits) - 1))
  ELSE digits

\* parseFloat: leading white space, a sign, digits, a point and digits; what
\* follows is ignored, and there is no number without a digit. The number is
\* kept exactly: its sign, its whole part and its decimals.
parseFloat(str) ==
  LET inked == {i \in 1..Len(str) : str[i] # " "}
      t == IF inked = {} THEN <<>>
           ELSE SubSeq(str, CHOOSE i \in inked : \A j \in inked : i <= j, Len(str))
      negative == t # <<>> /\ Head(t) = "-"
      u == IF negative THEN Tail(t) ELSE t
      whole == LeadingDigits(u)
      rest == SubSeq(u, Len(whole) + 1, Len(u))
      decimals == IF rest # <<>> /\ Head(rest) = "." THEN LeadingDigits(Tail(rest)) ELSE <<>>
  IN  IF whole = <<>> /\ decimals = <<>> THEN Null
      ELSE Some([negative |-> negative, units |-> DigitsValue(whole),
                 decimals |-> WithoutTrailingZeros(decimals)])

\* the comma of a number with commas only is a decimal comma when it is the
\* only one and at most two characters follow it
normalizeNumber(numericPart) ==
  IF IndicesOf(numericPart, ",") # {} /\ IndicesOf(numericPart, ".") # {}
  THEN IF lastIndexOf(numericPart, ",") > lastIndexOf(numericPart, ".")
       THEN ReplaceFirstComma(Without(numericPart, "."))
       ELSE Without(numericPart, ",")
  ELSE IF IndicesOf(numericPart, ",") # {}
  THEN IF Cardinality(IndicesOf(numericPart, ",")) = 1
            /\ Len(numericPart) - lastIndexOf(numericPart, ",") <= 2
       THEN ReplaceFirstComma(numericPart)
       ELSE Without(numericPart, ",")
  ELSE Without(numericPart, " ")

parsePrice(priceString) ==
  LET cleaned == trim(priceString)
      numericPart == trim(NumericChars(cleaned))
      value == parseFloat(normalizeNumber(numericPart))
  IN  IF priceString = <<>> THEN Null
      ELSE IF numericPart = <<>> THEN Null
      ELSE IF ~value.some THEN Null
      ELSE Some([value |-> value.v, currency |-> findCurrency(cleaned)])

\* A strategy visits its candidates in document order; a candidate is the
\* number parsed from it, or Null when parsePrice / parseFloat gives none.
RECURSIVE FirstValid(_)
FirstValid(candidates) ==
  IF candidates = <<>> THEN Null
  ELSE IF Head(candidates).some /\ isValidPrice(Head(candidates).v) THEN Head(candidates)
  ELSE FirstValid(Tail(candidates))

extractFromJsonLd(candidates) ==
  [priceValue |-> FirstValid(candidates), confidence |-> "high", source |-> "json-ld"]

extractFromMetaTags(candidates) ==
  [priceValue |-> FirstValid(candidates), confidence |-> "high", source |-> "meta-tag"]

extractFromSelectors(candidates) ==
  [priceValue |-> FirstValid(candidates), confidence |-> "medium", source |-> "selector"]

\* every valid match is kept; the value matched most often wins, the
\* earliest one among equals
extractFromRegex(matches) ==
  LET prices == SelectSeq(matches, LAMBDA c : c.some /\ isValidPrice(c.v))
      count(p) == Cardinality({i \in 1..Len(prices) : prices[i] = p})
      best[i \in 0..Len(prices)] ==
        IF i = 0 THEN [price |-> IF prices = <<>> THEN Null ELSE prices[1], count |-> 1]
        ELSE IF count(prices[i]) > best[i - 1].count
             THEN [price |-> prices[i], count |-> count(prices[i])]
             ELSE best[i - 1]
  IN  [priceValue |-> best[Len(prices)].price, confidence |-> "low", source |-> "regex"]

NoPrice == [priceValue |-> Null, confidence |-> "none", source |-> "none"]

\* the structural selectors tried before the structured data
extractPriceSelectorsFirst(page) ==
  IF extractFromSelectors(page.selectors).priceValue.some THEN extractFromSelectors(page.selectors)
  ELSE IF extractFromJsonLd(page.jsonLd).priceValue.some THEN extractFromJsonLd(page.jsonLd)
  ELSE IF extractFromMetaTags(page.meta).priceValue.some THEN extractFromMetaTags(page.meta)
  ELSE IF extractFromRegex(page.regex).priceValue.some THEN extractFromRegex(page.regex)
  ELSE NoPrice

extractPrice(page) ==
  IF extractFromJsonLd(page.jsonLd).priceValue.some THEN extractFromJsonLd(page.jsonLd)
  ELSE IF extractFromMetaTags(page.meta).priceValue.some THEN extractFromMetaTags(page.meta)
  ELSE IF extractFromSelectors(page.selectors).priceValue.some THEN extractFromSelectors(page.selectors)
  ELSE IF extractFromRegex(page.regex).priceValue.some THEN extractFromRegex(page.regex)
  ELSE NoPrice

\* --------------------------------------------------------------- analyzer

\* what the analyzer call meets: no API key, an API error, or a reply whose
\* text states "significance: high", "significance: low" or neither
AiOutcomes == {"no_key", "api_error", "says_high", "says_low", "says_other"}

analyzeChanges(ai) ==
  CASE ai = "no_key" -> [threw |-> FALSE, placeholder |-> TRUE, significance |-> "unknown"]
    [] ai = "api_error" -> [threw |-> FALSE, placeholder |-> TRUE, significance |-> "unknown"]
    [] ai = "says_high" -> [threw |-> FALSE, placeholder |-> FALSE, significance |-> "high"]
    [] ai = "says_low" -> [threw |-> FALSE, placeholder |-> FALSE, significance |-> "low"]
    [] OTHER -> [threw |-> FALSE, placeholder |-> FALSE, significance |-> "medium"]

analyzePriceChange(ai, priceDelta) ==
  CASE ai = "no_key" -> [threw |-> FALSE, placeholder |-> TRUE, significance |-> "unknown"]
    [] ai = "api_error" -> [threw |-> FALSE, placeholder |-> TRUE, significance |-> "unknown"]
    [] ai = "says_high" -> [threw |-> FALSE, placeholder |-> FALSE, significance |-> "high"]
    [] ai = "says_low" -> [threw |-> FALSE, placeholder |-> FALSE, significance |-> "low"]
    [] OTHER ->
         LET pctChange == IF priceDelta.deltaPercent.some THEN Abs(priceDelta.deltaPercent.v) ELSE 0
         IN  [threw |-> FALSE, placeholder |-> FALSE,
              significance |-> IF pctChange >= 1000 THEN "high"
                               ELSE IF pctChange >= 500 THEN "medium" ELSE "low"]

\* --------------------------------------------------------------- notifier

\* what sendChangeAlert meets: no Resend key, a delivered mail, a send error
MailOutcomes == {"not_configured", "delivered", "send_error"}

sendChangeAlert(mail, recipientEmail) ==
  IF mail = "not_configured" THEN [sent |-> FALSE, reason |-> "not_configured"]
  ELSE IF ~recipientEmail THEN [sent |-> FALSE, reason |-> "no_recipient"]
  ELSE IF mail = "delivered" THEN [sent |-> TRUE, reason |-> "none"]
  ELSE [sent |-> FALSE, reason |-> "send_error"]

\* ------------------------------------------------------------------ state

Pages == {"p1", "p2"}

VARIABLES
  snapshots,    \* Snapshot rows in capture order (capturedAt, then insertion)
  changes,      \* Change rows in detection order
  thresholds,   \* PRICE_CHANGE_THRESHOLDS as read from the environment
  devMode,      \* isDevMode()
  alertEmail,   \* shop.alertEmail is set
  active,       \* page.active, per page
  checks,       \* check cycles started so far; also the source of row ids
  last,         \* what the latest check cycle was given, saw and returned
  batch,        \* the checkCompetitor call in progress: its pages and results
  pending,      \* per caller, a check that has read the previous snapshot
  fetching,     \* the Scraper.scrape call in progress: fetch, timer, clock
  applied,      \* a function of the pipeline applied on its own: input, result
  cron          \* the scheduler: clock, the shop's settings, runs in progress

vars == <<snapshots, changes, thresholds, devMode, alertEmail, active, checks, last, batch,
          pending, fetching, applied, cron>>

\* ---------------------------------------------------------------- inputs

T0 == <<1, 2, 3, 4, 5, 6, 7, 8, 9, 10>>
TReordered == <<2, 1, 3, 4, 5, 6, 7, 8, 9, 10>>
TOneMore == <<1, 2, 3, 4, 5, 6, 7, 8, 9, 10, 11>>
TOther == <<12, 0, 13>>

\* page bodies a fetch may return, before normalization
RawPages == {T0, TReordered, TOneMore, TOther}

Prices == {45000, 50000, 51504}

\* extractPrice: a value with confidence high, medium or low, or null with none
Extracted(confidences, prices) ==
  {[confidence |-> "none", priceValue |-> Null]} \cup
  {[confidence |-> c, priceValue |-> Some(v)] : c \in confidences \ {"none"}, v \in prices}

\* CheckPageOptions.simulatedPrice: undefined, null or a number
SimulatedPrices == {[given |-> FALSE, price |-> Null], [given |-> TRUE, price |-> Null]} \cup
  {[given |-> TRUE, price |-> Some(v)] : v \in Prices}

FetchFailure == [ok |-> FALSE, raw |-> <<>>, confidence |-> "none", priceValue |-> Null]

\* Scraper.scrape: it throws, or returns the page with the price found on it
Scrapes(raws, extracted) ==
  {FetchFailure} \cup
  {[ok |-> TRUE, raw |-> r, confidence |-> e.confidence, priceValue |-> e.priceValue] :
     r \in raws, e \in extracted}

\* the store call that fails during a cycle, if any
StoreFailures == {"none", "snapshot.create", "page.update", "change.create", "change.update", "snapshot.deleteMany"}

\* --------------------------------------------------------------- the store

SnapshotsOf(snaps, pageId) == SelectSeq(snaps, LAMBDA s : s.pageId = pageId)

\* findFirst without the where clause: the latest snapshot of any page,
\* and an empty row taken for a snapshot
LatestSnapshotUnchecked(snaps, pageId) ==
  [found |-> TRUE,
   row |-> IF snaps = <<>>
           THEN [id |-> 0, pageId |-> pageId, contentHash |-> 0, textContent |-> <<>>, priceValue |-> Null]
           ELSE snaps[Len(snaps)]]

\* prisma.snapshot.findFirst({ where: { pageId }, orderBy: { capturedAt: "desc" } })
LatestSnapshot(snaps, pageId) ==
  LET mine == SnapshotsOf(snaps, pageId)
  IN  IF mine = <<>> THEN [found |-> FALSE, row |-> [id |-> 0, pageId |-> pageId, contentHash |-> 0, textContent |-> <<>>, priceValue |-> Null]]
      ELSE [found |-> TRUE, row |-> mine[Len(mine)]]

\* findMany with skip 10 and without the where clause: of any page
oldSnapshotsAnyPage(snaps, pageId) ==
  IF Len(snaps) > RetentionCount
  THEN {snaps[i].id : i \in 1..(Len(snaps) - RetentionCount)} ELSE {}

\* prisma.snapshot.findMany({ where: { pageId }, orderBy: { capturedAt: "desc" }, skip: 10 })
oldSnapshots(snaps, pageId) ==
  LET mine == SnapshotsOf(snaps, pageId)
  IN  IF Len(mine) > RetentionCount
      THEN {mine[i].id : i \in 1..(Len(mine) - RetentionCount)} ELSE {}

\* prisma.snapshot.deleteMany({ where: { id: { in: ids } } })
deleteMany(snaps, ids) == SelectSeq(snaps, LAMBDA s : s.id \notin ids)

\* findMany(orderBy capturedAt desc, skip 10) then deleteMany of those ids
cleanupOldSnapshots(snaps, pageId) == deleteMany(snaps, oldSnapshots(snaps, pageId))

NoChange == [id |-> 0, pageId |-> "none", oldContentHash |-> 0, newContentHash |-> 0,
             significance |-> "none", changeType |-> "NULL",
             oldPrice |-> Null, newPrice |-> Null, priceDelta |-> Null, priceDeltaPct |-> Null,
             notified |-> FALSE]

NoDelta == computePriceDelta(Null, Null, PRICE_CHANGE_THRESHOLDS)

\* prisma.change.update({ where: { id }, data: { notified: true } })
MarkNotified(chgs, id) ==
  [i \in DOMAIN chgs |-> IF chgs[i].id = id THEN [chgs[i] EXCEPT !.notified = TRUE] ELSE chgs[i]]

\* ----------------------------------------------------------- check cycles

\* the outcome of one cycle: the store it leaves, what it returns, the
\* analyzer's verdict and the notifier's answer it got ("unused": not called)
Outcome(threw, snaps, chgs, first, change, priceChange, analysis, mail, sent, failed) ==
  [threw |-> threw, snapshots |-> snaps, changes |-> chgs,
   isFirstSnapshot |-> first, change |-> change, priceChange |-> priceChange,
   analysis |-> analysis, mail |-> mail, sent |-> sent, failed |-> failed]

NoPriceChange == [some |-> FALSE, id |-> 0, priceDelta |-> NoDelta]

\* the flag set whatever the notifier answered
ShouldMarkNotifiedAlways(notifyResult) == TRUE

\* if (notifyResult.sent): the Change is marked notified
ShouldMarkNotified(notifyResult) == notifyResult.sent

\* checkPage and checkPageWorker after prisma.change.create: the alert, the
\* notified flag and the pruning of old snapshots
NotifyAndCleanup(pageId, snaps, chgs, row, returned, priceChange, analysis, mail, fail) ==
  LET notifyResult == IF alertEmail THEN sendChangeAlert(mail, alertEmail)
                      ELSE [sent |-> FALSE, reason |-> "not_called"]
      usedMail == IF alertEmail THEN mail ELSE "unused"
      marked == IF ShouldMarkNotified(notifyResult) THEN MarkNotified(chgs, row.id) ELSE chgs
      mine == SnapshotsOf(snaps, pageId)
  IN  IF ShouldMarkNotified(notifyResult) /\ fail = "change.update"
      THEN Outcome(TRUE, snaps, chgs, FALSE, NoChange, NoPriceChange, analysis, usedMail, TRUE, fail)
      ELSE IF fail = "snapshot.deleteMany" /\ Len(mine) > RetentionCount
      THEN Outcome(TRUE, snaps, marked, FALSE, NoChange, NoPriceChange, analysis, usedMail, notifyResult.sent, fail)
      ELSE Outcome(FALSE, cleanupOldSnapshots(snaps, pageId), marked, FALSE, returned, priceChange,
                   analysis, usedMail, notifyResult.sent, "none")

\* significance stored on the price-only path
PriceOnlySignificance(priceAnalysis) ==
  IF priceAnalysis.significance # "unknown" THEN priceAnalysis.significance ELSE "medium"

\* the analyzer's verdict stored as it comes, "unknown" included
ContentSignificanceFromAnalyzer(diff, hasPriceChange, aiResult) == aiResult.significance

\* the content path's significance with the elevation applied to every level
ContentSignificanceElevateAlways(diff, hasPriceChange, aiResult) ==
  LET local == determineSignificance(diff)
      elevated == IF hasPriceChange THEN "medium" ELSE local
  IN  IF aiResult.significance # "unknown" THEN aiResult.significance ELSE elevated

\* significance stored on the content path
ContentSignificance(diff, hasPriceChange, aiResult) ==
  LET local == determineSignificance(diff)
      elevated == IF hasPriceChange /\ local = "low" THEN "medium" ELSE local
  IN  IF aiResult.significance # "unknown" THEN aiResult.significance ELSE elevated

\* const hasPriceChange = adjustedThresholds.shouldAlert && priceDelta.isMeaningful
HasPriceChange(adjustedThresholds, priceDelta) == adjustedThresholds.shouldAlert /\ priceDelta.isMeaningful

\* const hasContentChange = previousSnapshot.contentHash !== newSnapshot.contentHash
HasContentChange(previousSnapshot, newSnapshot) == previousSnapshot.contentHash # newSnapshot.contentHash

\* the unchanged test without the price: if (!hasContentChange)
NothingToReportIgnoringPrice(hasContentChange, hasPriceChange) == ~hasContentChange

\* if (!hasContentChange && !hasPriceChange): nothing to report
NothingToReport(hasContentChange, hasPriceChange) == ~hasContentChange /\ ~hasPriceChange

\* if (!hasContentChange && hasPriceChange): the PRICE_CHANGE-only branch
PriceOnly(hasContentChange, hasPriceChange) == ~hasContentChange /\ hasPriceChange

\* the price-only row with the two prices exchanged
PriceChangeRecordSwapped(id, pageId, previousSnapshot, newSnapshot, priceDelta, significance) ==
  [id |-> id, pageId |-> pageId,
   oldContentHash |-> previousSnapshot.contentHash, newContentHash |-> newSnapshot.contentHash,
   significance |-> significance,
   changeType |-> "PRICE_CHANGE",
   oldPrice |-> ToDecimal(priceDelta.newPrice), newPrice |-> ToDecimal(priceDelta.oldPrice),
   priceDelta |-> ToDecimal(priceDelta.deltaAmount), priceDeltaPct |-> priceDelta.deltaPercent,
   notified |-> FALSE]

\* the row created on the price-only path
PriceChangeRecord(id, pageId, previousSnapshot, newSnapshot, priceDelta, significance) ==
  [id |-> id, pageId |-> pageId,
   oldContentHash |-> previousSnapshot.contentHash, newContentHash |-> newSnapshot.contentHash,
   significance |-> significance,
   changeType |-> "PRICE_CHANGE",
   oldPrice |-> ToDecimal(priceDelta.oldPrice), newPrice |-> ToDecimal(priceDelta.newPrice),
   priceDelta |-> ToDecimal(priceDelta.deltaAmount), priceDeltaPct |-> priceDelta.deltaPercent,
   notified |-> FALSE]

\* the price the cycle works with: the extracted one, or the DEV_MODE override
EffectivePrice(sc, sim) == IF devMode /\ sim.given THEN sim.price ELSE sc.priceValue

\* checkPage after prisma.snapshot.findFirst returned previous
checkPageFrom(previous, pageId, sc, sim, ai, mail, fail) ==
  LET previousSnapshot == previous.row
      textContent == NormalizeText(sc.raw)
      effectivePriceValue == EffectivePrice(sc, sim)
      newSnapshot == [id |-> checks + 1, pageId |-> pageId, contentHash |-> ContentHash(textContent),
                      textContent |-> textContent, priceValue |-> ToDecimal(effectivePriceValue)]
      stored == Append(snapshots, newSnapshot)
      previousPriceValue == decimalToNumber(previousSnapshot.priceValue)
      adjustedThresholds == getConfidenceAdjustedThresholds(sc.confidence, thresholds)
      priceDelta == computePriceDelta(previousPriceValue, effectivePriceValue, adjustedThresholds)
      hasPriceChange == HasPriceChange(adjustedThresholds, priceDelta)
      hasContentChange == HasContentChange(previousSnapshot, newSnapshot)
      priceAnalysis == analyzePriceChange(ai, priceDelta)
      diff == compareSnapshots(previousSnapshot.textContent, newSnapshot.textContent)
      aiResult == analyzeChanges(ai)
      id == Len(changes) + 1
      priceChangeRecord == PriceChangeRecord(id, pageId, previousSnapshot, newSnapshot, priceDelta,
                                             PriceOnlySignificance(priceAnalysis))
      change ==
        [id |-> id, pageId |-> pageId,
         oldContentHash |-> previousSnapshot.contentHash, newContentHash |-> newSnapshot.contentHash,
         significance |-> ContentSignificance(diff, hasPriceChange, aiResult),
         changeType |-> IF hasPriceChange THEN "PRICE_CHANGE" ELSE "CONTENT",
         oldPrice |-> IF hasPriceChange THEN ToDecimal(priceDelta.oldPrice) ELSE Null,
         newPrice |-> IF hasPriceChange THEN ToDecimal(priceDelta.newPrice) ELSE Null,
         priceDelta |-> IF hasPriceChange THEN ToDecimal(priceDelta.deltaAmount) ELSE Null,
         priceDeltaPct |-> IF hasPriceChange THEN priceDelta.deltaPercent ELSE Null,
         notified |-> FALSE]
      reported == [some |-> TRUE, id |-> id, priceDelta |-> priceDelta]
      analysis == IF PriceOnly(hasContentChange, hasPriceChange) THEN priceAnalysis ELSE aiResult
  IN  IF ~sc.ok
      THEN Outcome(TRUE, snapshots, changes, FALSE, NoChange, NoPriceChange, "unused", "unused", FALSE, "fetch")
      ELSE IF fail = "snapshot.create"
      THEN Outcome(TRUE, snapshots, changes, FALSE, NoChange, NoPriceChange, "unused", "unused", FALSE, fail)
      ELSE IF fail = "page.update"
      THEN Outcome(TRUE, stored, changes, FALSE, NoChange, NoPriceChange, "unused", "unused", FALSE, fail)
      ELSE IF ~previous.found
      THEN Outcome(FALSE, stored, changes, TRUE, NoChange, NoPriceChange, "unused", "unused", FALSE, "none")
      ELSE IF NothingToReport(hasContentChange, hasPriceChange)
      THEN Outcome(FALSE, stored, changes, FALSE, NoChange, NoPriceChange, "unused", "unused", FALSE, "none")
      ELSE IF fail = "change.create"
      THEN Outcome(TRUE, stored, changes, FALSE, NoChange, NoPriceChange, analysis.significance, "unused", FALSE, fail)
      ELSE IF PriceOnly(hasContentChange, hasPriceChange)
      THEN NotifyAndCleanup(pageId, stored, Append(changes, priceChangeRecord), priceChangeRecord,
                            NoChange, reported, analysis.significance, mail, fail)
      ELSE NotifyAndCleanup(pageId, stored, Append(changes, change), change,
                            change, IF hasPriceChange THEN reported ELSE NoPriceChange,
                            analysis.significance, mail, fail)

checkPage(pageId, sc, sim, ai, mail, fail) ==
  checkPageFrom(LatestSnapshot(snapshots, pageId), pageId, sc, sim, ai, mail, fail)

\* scheduler.server.ts checkPageWorker after findFirst returned previous:
\* content only, every error swallowed
checkPageWorkerFrom(previous, pageId, sc, ai, mail, fail) ==
  LET previousSnapshot == previous.row
      textContent == NormalizeText(sc.raw)
      newSnapshot == [id |-> checks + 1, pageId |-> pageId, contentHash |-> ContentHash(textContent),
                      textContent |-> textContent, priceValue |-> Null]
      stored == Append(snapshots, newSnapshot)
      diff == compareSnapshots(previousSnapshot.textContent, newSnapshot.textContent)
      aiResult == analyzeChanges(ai)
      significance == IF aiResult.significance # "unknown" THEN aiResult.significance
                      ELSE determineSignificance(diff)
      change ==
        [id |-> Len(changes) + 1, pageId |-> pageId,
         oldContentHash |-> previousSnapshot.contentHash, newContentHash |-> newSnapshot.contentHash,
         significance |-> significance, changeType |-> "NULL",
         oldPrice |-> Null, newPrice |-> Null, priceDelta |-> Null, priceDeltaPct |-> Null,
         notified |-> FALSE]
      tried ==
        IF ~sc.ok
        THEN Outcome(TRUE, snapshots, changes, FALSE, NoChange, NoPriceChange, "unused", "unused", FALSE, "fetch")
        ELSE IF fail = "snapshot.create"
        THEN Outcome(TRUE, snapshots, changes, FALSE, NoChange, NoPriceChange, "unused", "unused", FALSE, fail)
        ELSE IF fail = "page.update"
        THEN Outcome(TRUE, stored, changes, FALSE, NoChange, NoPriceChange, "unused", "unused", FALSE, fail)
        ELSE IF ~previous.found
        THEN Outcome(FALSE, stored, changes, FALSE, NoChange, NoPriceChange, "unused", "unused", FALSE, "none")
        ELSE IF previousSnapshot.contentHash = newSnapshot.contentHash
        THEN Outcome(FALSE, stored, changes, FALSE, NoChange, NoPriceChange, "unused", "unused", FALSE, "none")
        ELSE IF fail = "change.create"
        THEN Outcome(TRUE, stored, changes, FALSE, NoChange, NoPriceChange, aiResult.significance, "unused", FALSE, fail)
        ELSE NotifyAndCleanup(pageId, stored, Append(changes, change), change,
                              change, NoPriceChange, aiResult.significance, mail, fail)
  IN  \* catch (error) { return { hasChange: false } }
      IF ~active[pageId]
      THEN Outcome(FALSE, snapshots, changes, FALSE, NoChange, NoPriceChange, "unused", "unused", FALSE, "none")
      ELSE [tried EXCEPT !.threw = FALSE]

checkPageWorker(pageId, sc, ai, mail, fail) ==
  checkPageWorkerFrom(LatestSnapshot(snapshots, pageId), pageId, sc, ai, mail, fail)

\* ---------------------------------------------------------------- actions

Idle ==
  [entry |-> "none", pageId |-> "none", fetched |-> FALSE, confidence |-> "none",
   effectivePrice |-> Null, threw |-> FALSE, isFirstSnapshot |-> FALSE,
   change |-> NoChange, priceChange |-> NoPriceChange, hasChange |-> FALSE,
   analysis |-> "unused", mailCalled |-> FALSE, sent |-> FALSE, failed |-> "none",
   compared |-> 0,
   pre |-> [snapshots |-> <<>>, changes |-> <<>>]]

\* what a cycle leaves behind: the store, and the record of the cycle
\* compared: the id of the snapshot findFirst returned, 0 for none
RecordFrom(previous, entry, pageId, sc, sim, o) ==
  /\ snapshots' = o.snapshots
  /\ changes' = o.changes
  /\ checks' = checks + 1
  /\ last' = [entry |-> entry, pageId |-> pageId, fetched |-> sc.ok,
              confidence |-> IF sc.ok THEN sc.confidence ELSE "none",
              effectivePrice |-> IF sc.ok /\ entry = "checkPage" THEN EffectivePrice(sc, sim) ELSE Null,
              threw |-> o.threw, isFirstSnapshot |-> o.isFirstSnapshot,
              change |-> o.change, priceChange |-> o.priceChange,
              hasChange |-> o.change.id # 0,
              analysis |-> o.analysis, mailCalled |-> o.mail # "unused",
              sent |-> o.sent, failed |-> o.failed,
              compared |-> IF previous.found THEN previous.row.id ELSE 0,
              pre |-> [snapshots |-> snapshots, changes |-> changes]]

Record(entry, pageId, sc, sim, o) ==
  RecordFrom(LatestSnapshot(snapshots, pageId), entry, pageId, sc, sim, o)

NotSimulated == [given |-> FALSE, price |-> Null]

\* The collaborator outcomes a cycle is run with: <<analyzer, notifier,
\* failing store call>>.  An outcome the cycle never reads is "unused", and a
\* store call fails only where the cycle makes it, so that one cycle is not
\* enumerated once per value it does not read.  probe is the cycle run
\* with every collaborator answering and no store call failing.
Reads(pageId, sc, probe, given) ==
  LET ais == IF probe.analysis = "unused" THEN {"unused"} ELSE given.ais
      mails == IF probe.mail = "unused" THEN {"unused"} ELSE given.mails
      full == Len(SnapshotsOf(snapshots, pageId)) >= RetentionCount
  IN  {<<a, m, "none">> : a \in ais, m \in mails}
      \cup {<<"unused", "unused", f>> :
              f \in IF sc.ok THEN given.fails \cap {"snapshot.create", "page.update"} ELSE {}}
      \cup {<<a, "unused", f>> :
              a \in ais, f \in IF probe.analysis # "unused" THEN given.fails \cap {"change.create"} ELSE {}}
      \cup {<<a, m, f>> :
              a \in ais, m \in mails \cap {"delivered"}, f \in given.fails \cap {"change.update"}}
      \cup {<<a, m, f>> :
              a \in ais, m \in mails,
              f \in IF probe.analysis # "unused" /\ full THEN given.fails \cap {"snapshot.deleteMany"} ELSE {}}

\* the check route and the competitor page: checkPage(pageId, options)
CheckPage(pageId, limit, given) ==
  /\ checks < limit
  /\ \E sc \in given.scrapes, sim \in (IF devMode THEN given.sims ELSE {NotSimulated}) :
       \E in \in Reads(pageId, sc, checkPage(pageId, sc, sim, "no_key", "delivered", "none"), given) :
         Record("checkPage", pageId, sc, sim, checkPage(pageId, sc, sim, in[1], in[2], in[3]))
  /\ UNCHANGED <<thresholds, devMode, alertEmail, active, batch, pending, fetching, applied, cron>>

\* runShopCheck: checkPageWorker(page.id, scraper) for a page of the shop
WorkerCycle(pageId, limit, given) ==
  /\ checks < limit
  /\ \E sc \in given.scrapes :
       \E in \in Reads(pageId, sc, checkPageWorker(pageId, sc, "no_key", "delivered", "none"), given) :
         Record("checkPageWorker", pageId, sc, NotSimulated,
                checkPageWorker(pageId, sc, in[1], in[2], in[3]))

CheckPageWorker(pageId, limit, given) ==
  /\ WorkerCycle(pageId, limit, given)
  /\ UNCHANGED <<thresholds, devMode, alertEmail, active, batch, pending, fetching, applied, cron>>

\* competitor.pages with where: { active: true }
PageOrder == <<"p1", "p2">>

ActivePages == SelectSeq(PageOrder, LAMBDA p : active[p])

NoBatch == [pc |-> "idle", pages |-> <<>>, results |-> <<>>, checked |-> 0, changes |-> 0]

\* checkCompetitor up to the loop; it throws when there is no active page
StartCheckCompetitor ==
  /\ batch.pc # "running"
  /\ ActivePages # <<>>
  /\ batch' = [pc |-> "running", pages |-> ActivePages, results |-> <<>>, checked |-> 0, changes |-> 0]
  /\ UNCHANGED <<snapshots, changes, thresholds, devMode, alertEmail, active, checks, last, pending, fetching, applied, cron>>

\* one turn of the loop: checkPage(page.id), its result or its error pushed
CheckCompetitorStep(limit, given) ==
  /\ batch.pc = "running"
  /\ Len(batch.results) < Len(batch.pages)
  /\ checks < limit
  /\ LET pageId == batch.pages[Len(batch.results) + 1]
     IN  \E sc \in given.scrapes :
           \E in \in Reads(pageId, sc, checkPage(pageId, sc, NotSimulated, "no_key", "delivered", "none"), given) :
                 LET o == checkPage(pageId, sc, NotSimulated, in[1], in[2], in[3])
                     result == IF o.threw
                               THEN [pageId |-> pageId, isFirstSnapshot |-> FALSE, change |-> FALSE,
                                     priceChange |-> FALSE, error |-> TRUE]
                               ELSE [pageId |-> pageId, isFirstSnapshot |-> o.isFirstSnapshot,
                                     change |-> o.change.id # 0, priceChange |-> o.priceChange.some,
                                     error |-> FALSE]
                 IN  /\ Record("checkPage", pageId, sc, NotSimulated, o)
                     /\ batch' = [batch EXCEPT !.results = Append(@, result)]
  /\ UNCHANGED <<thresholds, devMode, alertEmail, active, pending, fetching, applied, cron>>

\* results counted by their change alone: filter((r) => r.change)
changesCountContentOnly(results) ==
  Cardinality({i \in 1..Len(results) : results[i].change})

\* results.filter((r) => r.change || r.priceChange).length
changesCount(results) ==
  Cardinality({i \in 1..Len(results) : results[i].change \/ results[i].priceChange})

\* after the loop: the counts returned to the caller
FinishCheckCompetitor ==
  /\ batch.pc = "running"
  /\ Len(batch.results) = Len(batch.pages)
  /\ batch' = [batch EXCEPT
                 !.pc = "done",
                 !.checked = Len(batch.pages),
                 !.changes = changesCount(batch.results)]
  /\ UNCHANGED <<snapshots, changes, thresholds, devMode, alertEmail, active, checks, last, pending, fetching, applied, cron>>

\* the callers that can check one page at the same time: the check route
\* and the scheduler's runShopCheck
Callers == {"route", "scheduler"}

NoPending == [c \in Callers |-> [pc |-> "idle", pageId |-> "none", sc |-> FetchFailure,
                                  previous |-> LatestSnapshot(<<>>, "none"), old |-> {}]]

NotFetching == [pc |-> "idle", timer |-> "none", timeout |-> 0, elapsed |-> 0,
                aborted |-> FALSE, error |-> "none", raw |-> <<>>]

NotApplied == [fn |-> "none", input |-> <<>>, result |-> <<>>]

\* A check up to prisma.snapshot.findFirst: the page is fetched and the
\* previous snapshot read; other callers may run before it goes on.
BeginCheck(caller, pageId, limit, given) ==
  /\ pending[caller].pc = "idle"
  /\ checks + Cardinality({c \in Callers : pending[c].pc = "found"}) < limit
  /\ caller = "scheduler" => active[pageId]
  /\ \E sc \in {x \in given.scrapes : x.ok} :
       pending' = [pending EXCEPT ![caller] =
                     [pc |-> "found", pageId |-> pageId, sc |-> sc,
                      previous |-> LatestSnapshot(snapshots, pageId), old |-> {}]]
  /\ UNCHANGED <<snapshots, changes, thresholds, devMode, alertEmail, active, checks, last, batch,
                 fetching, applied, cron>>

\* The rest of that check, from prisma.snapshot.create on, with the previous
\* snapshot it read before: checkPage for the route, checkPageWorker for the
\* scheduler.
EndCheck(caller, given) ==
  /\ pending[caller].pc = "found"
  /\ LET p == pending[caller]
         probe == IF caller = "route"
                  THEN checkPageFrom(p.previous, p.pageId, p.sc, NotSimulated, "no_key", "delivered", "none")
                  ELSE checkPageWorkerFrom(p.previous, p.pageId, p.sc, "no_key", "delivered", "none")
     IN  \E in \in Reads(p.pageId, p.sc, probe, given) :
           RecordFrom(p.previous, IF caller = "route" THEN "checkPage" ELSE "checkPageWorker",
                      p.pageId, p.sc, NotSimulated,
                      IF caller = "route"
                      THEN checkPageFrom(p.previous, p.pageId, p.sc, NotSimulated, in[1], in[2], in[3])
                      ELSE checkPageWorkerFrom(p.previous, p.pageId, p.sc, in[1], in[2], in[3]))
  /\ pending' = [pending EXCEPT ![caller] = NoPending[caller]]
  /\ UNCHANGED <<thresholds, devMode, alertEmail, active, batch, fetching, applied, cron>>

\* checkPage up to the findMany of cleanupOldSnapshots: the whole cycle, and
\* on the paths that prune the ids of the old snapshots are read and the
\* deleteMany is still to come; other checks may run before it.
CheckPageFindOld(pageId, limit, given) ==
  /\ pending["route"].pc = "idle"
  /\ checks < limit
  /\ \E sc \in given.scrapes :
       \E in \in Reads(pageId, sc, checkPage(pageId, sc, NotSimulated, "no_key", "delivered", "none"), given) :
         LET o == checkPage(pageId, sc, NotSimulated, in[1], in[2], in[3])
             stored == IF Len(o.snapshots) > 0 /\ o.snapshots[Len(o.snapshots)].id = checks + 1
                       THEN Append(snapshots, o.snapshots[Len(o.snapshots)])
                       ELSE snapshots
             old == {stored[i].id : i \in 1..Len(stored)} \ {o.snapshots[i].id : i \in 1..Len(o.snapshots)}
         IN  /\ Record("checkPage", pageId, sc, NotSimulated, [o EXCEPT !.snapshots = stored])
             /\ pending' = IF old = {} THEN pending
                           ELSE [pending EXCEPT !["route"].pc = "pruning", !["route"].pageId = pageId,
                                                !["route"].old = old]
  /\ UNCHANGED <<thresholds, devMode, alertEmail, active, batch, fetching, applied, cron>>

\* the deleteMany of cleanupOldSnapshots, with the ids read before
DeleteOldSnapshots ==
  /\ pending["route"].pc = "pruning"
  /\ snapshots' = deleteMany(snapshots, pending["route"].old)
  /\ pending' = [pending EXCEPT !["route"] = NoPending["route"]]
  /\ UNCHANGED <<changes, thresholds, devMode, alertEmail, active, checks, last, batch,
                 fetching, applied, cron>>

\* Scraper.scrape, step by step.  Time is counted in ticks; options.timeout
\* is a number of ticks.

\* const controller = new AbortController(); setTimeout(abort, timeout); fetch
StartScrape(timeout) ==
  /\ fetching.pc = "idle"
  /\ fetching' = [fetching EXCEPT !.pc = "fetching", !.timer = "armed", !.timeout = timeout,
                                  !.elapsed = 0]
  /\ UNCHANGED <<snapshots, changes, thresholds, devMode, alertEmail, active, checks, last, batch,
                 pending, applied, cron>>

\* A tick passes while the call waits for the headers or for the body.  An
\* armed timer fires at the timeout: controller.abort() rejects the pending
\* operation with an AbortError, the catch clears the timer and throws
\* "Request timeout".  A cleared timer does nothing.
Tick ==
  /\ fetching.pc \in {"fetching", "reading"}
  /\ fetching.elapsed < fetching.timeout + MaxOvertime
  /\ fetching' =
       IF fetching.timer = "armed" /\ fetching.elapsed + 1 >= fetching.timeout
       THEN [fetching EXCEPT !.elapsed = @ + 1, !.aborted = TRUE, !.timer = "cleared",
                             !.pc = "failed", !.error = "timeout"]
       ELSE [fetching EXCEPT !.elapsed = @ + 1]
  /\ UNCHANGED <<snapshots, changes, thresholds, devMode, alertEmail, active, checks, last, batch,
                 pending, applied, cron>>

\* await fetch(...) resolves with the response headers: clearTimeout, then
\* the status check
HeadersArrive(ok) ==
  /\ fetching.pc = "fetching"
  /\ fetching' = IF ok THEN [fetching EXCEPT !.pc = "reading", !.timer = "cleared"]
                 ELSE [fetching EXCEPT !.pc = "failed", !.timer = "cleared", !.error = "http"]
  /\ UNCHANGED <<snapshots, changes, thresholds, devMode, alertEmail, active, checks, last, batch,
                 pending, applied, cron>>

\* fetch or response.text() rejects with a network error: the catch clears
\* the timer and rethrows
NetworkError ==
  /\ fetching.pc \in {"fetching", "reading"}
  /\ fetching' = [fetching EXCEPT !.pc = "failed", !.timer = "cleared", !.error = "network"]
  /\ UNCHANGED <<snapshots, changes, thresholds, devMode, alertEmail, active, checks, last, batch,
                 pending, applied, cron>>

\* await response.text() resolves: the result is built and returned
BodyArrives(raw) ==
  /\ fetching.pc = "reading"
  /\ fetching' = [fetching EXCEPT !.pc = "returned", !.raw = NormalizeText(raw)]
  /\ UNCHANGED <<snapshots, changes, thresholds, devMode, alertEmail, active, checks, last, batch,
                 pending, applied, cron>>

\* ------------------------------------------- the Express application
\* src/services/scraper.js with models/snapshot.js and models/change.js: the
\* check of the application that keeps its rows in SQLite.  A change row
\* names the two snapshots it was derived from.

\* deleteOldByPage(pageId, keepCount = 30)
KeepCount == 30

\* Snapshot.deleteOldByPage: the ids beyond the newest keepCount, the changes
\* naming one of them deleted, then the snapshots
deleteOldByPage(snaps, chgs, pageId) ==
  LET mine == SnapshotsOf(snaps, pageId)
      toDelete == IF Len(mine) > KeepCount
                  THEN {mine[i].id : i \in 1..(Len(mine) - KeepCount)} ELSE {}
  IN  [snapshots |-> SelectSeq(snaps, LAMBDA s : s.id \notin toDelete),
       changes |-> SelectSeq(chgs, LAMBDA c : c.old_snapshot_id \notin toDelete
                                              /\ c.new_snapshot_id \notin toDelete)]

\* checkPage(pageId) of services/scraper.js
checkPageLegacy(pageId, sc, ai, mail) ==
  LET previous == LatestSnapshot(snapshots, pageId)
      previousSnapshot == previous.row
      textContent == NormalizeText(sc.raw)
      newSnapshot == [id |-> checks + 1, pageId |-> pageId, contentHash |-> ContentHash(textContent),
                      textContent |-> textContent, priceValue |-> Null]
      stored == Append(snapshots, newSnapshot)
      diff == compareSnapshots(previousSnapshot.textContent, newSnapshot.textContent)
      aiResult == analyzeChanges(ai)
      significance == IF aiResult.significance # "unknown" THEN aiResult.significance
                      ELSE determineSignificance(diff)
      notifyResult == sendChangeAlert(mail, TRUE)
      change == [id |-> checks + 1, pageId |-> pageId,
                 old_snapshot_id |-> previousSnapshot.id, new_snapshot_id |-> newSnapshot.id,
                 significance |-> significance, notified |-> notifyResult.sent]
      kept == deleteOldByPage(stored, Append(changes, change), pageId)
  IN  IF ~sc.ok
      THEN Outcome(TRUE, snapshots, changes, FALSE, NoChange, NoPriceChange, "unused", "unused", FALSE, "fetch")
      ELSE IF ~previous.found
      THEN Outcome(FALSE, stored, changes, TRUE, NoChange, NoPriceChange, "unused", "unused", FALSE, "none")
      ELSE IF previousSnapshot.contentHash = newSnapshot.contentHash
      THEN Outcome(FALSE, stored, changes, FALSE, NoChange, NoPriceChange, "unused", "unused", FALSE, "none")
      ELSE Outcome(FALSE, kept.snapshots, kept.changes, FALSE, change, NoPriceChange,
                   aiResult.significance, mail, notifyResult.sent, "none")

CheckPageLegacy(pageId, limit, given) ==
  /\ checks < limit
  /\ \E sc \in given.scrapes, ai \in given.ais, mail \in given.mails :
       Record("checkPageLegacy", pageId, sc, NotSimulated, checkPageLegacy(pageId, sc, ai, mail))
  /\ UNCHANGED <<thresholds, devMode, alertEmail, active, batch, pending, fetching, applied, cron>>

\* ------------------------------------------------------------- scheduler
\* One shop under the cron of startCron.  Time is in minutes.

\* cron.schedule("*/5 * * * *", ...)
TickMinutes == 5

\* runs: the runShopCheck calls in progress, each with the minute it started
\* at and the index of the next page it checks; starts: the minutes at which
\* automatic checks of the shop have started
NoCron ==
  [now |-> 0, ticked |-> FALSE, checkIntervalMinutes |-> 0, maxFrequencyAllowedMinutes |-> 0,
   lastAutoCheckAt |-> Null, runs |-> <<>>, starts |-> <<>>]

isShopDueForCheck(lastAutoCheckAt, checkIntervalMinutes, maxFrequencyAllowedMinutes, now) ==
  IF ~lastAutoCheckAt.some THEN TRUE
  ELSE LET effectiveIntervalMinutes == Max(checkIntervalMinutes, maxFrequencyAllowedMinutes)
           timeSinceLastCheck == now - lastAutoCheckAt.v
       IN  timeSinceLastCheck >= effectiveIntervalMinutes

\* a minute passes; the cron fires at every fifth before time moves on
PassMinute ==
  /\ cron.now < MaxClock
  /\ cron.now % TickMinutes = 0 => cron.ticked
  /\ cron' = [cron EXCEPT !.now = @ + 1, !.ticked = FALSE]
  /\ UNCHANGED <<snapshots, changes, thresholds, devMode, alertEmail, active, checks, last, batch,
                 pending, fetching, applied>>

\* runScheduledChecks up to its first runShopCheck: the shop is read, and if
\* it has an active page and is due a run starts; the callback does not wait
\* for runs started by earlier ticks
CronTick ==
  /\ cron.now % TickMinutes = 0
  /\ ~cron.ticked
  /\ LET due == /\ ActivePages # <<>>
                /\ isShopDueForCheck(cron.lastAutoCheckAt, cron.checkIntervalMinutes,
                                     cron.maxFrequencyAllowedMinutes, cron.now)
     IN  cron' = IF due
                 THEN [cron EXCEPT !.ticked = TRUE,
                                   !.runs = Append(@, [start |-> cron.now, next |-> 1]),
                                   !.starts = Append(@, cron.now)]
                 ELSE [cron EXCEPT !.ticked = TRUE]
  /\ UNCHANGED <<snapshots, changes, thresholds, devMode, alertEmail, active, checks, last, batch,
                 pending, fetching, applied>>

\* runShopCheck: await checkPageWorker(page.id, scraper) for its next page
ShopCheckPage(r, limit, given) ==
  /\ r \in 1..Len(cron.runs)
  /\ cron.runs[r].next <= Len(ActivePages)
  /\ WorkerCycle(ActivePages[cron.runs[r].next], limit, given)
  /\ cron' = [cron EXCEPT !.runs[r].next = @ + 1]
  /\ UNCHANGED <<thresholds, devMode, alertEmail, active, batch, pending, fetching, applied>>

\* runShopCheck after its last page: lastAutoCheckAt: new Date()
FinishShopCheck(r) ==
  /\ r \in 1..Len(cron.runs)
  /\ cron.runs[r].next > Len(ActivePages)
  /\ cron' = [cron EXCEPT !.lastAutoCheckAt = Some(cron.now),
                          !.runs = SubSeq(@, 1, r - 1) \o SubSeq(@, r + 1, Len(@))]
  /\ UNCHANGED <<snapshots, changes, thresholds, devMode, alertEmail, active, checks, last, batch,
                 pending, fetching, applied>>

\* a function applied to the input drawn for it
Apply(fn, result) ==
  /\ applied.fn = "none"
  /\ applied' = [applied EXCEPT !.fn = fn, !.result = result]
  /\ UNCHANGED <<snapshots, changes, thresholds, devMode, alertEmail, active, checks, last, batch,
                 pending, fetching, cron>>

ApplyExtractPrice == Apply("extractPrice", extractPrice(applied.input))

ApplyComputePriceDelta ==
  Apply("computePriceDelta",
        computePriceDelta(applied.input.oldPrice, applied.input.newPrice, applied.input.thresholds))

ApplyParsePrice == Apply("parsePrice", parsePrice(applied.input))

\* two texts by their line counts: common lines kept, removed lines only in
\* the old text, added lines only in the new one
OldTextOf(shape) == [i \in 1..(shape.common + shape.removed) |-> i]

NewTextOf(shape) ==
  [i \in 1..(shape.common + shape.added) |-> IF i <= shape.common THEN i ELSE 1000 + i]

\* determineSignificance(compareSnapshots(old, new))
SignificanceOf(shape) == determineSignificance(compareSnapshots(OldTextOf(shape), NewTextOf(shape)))

ApplyDetermineSignificance == Apply("determineSignificance", SignificanceOf(applied.input))

\* compareSnapshots on a pair of texts in both directions, and on the first
\* text against itself
ApplyCompareSnapshots ==
  Apply("compareSnapshots",
        [ab |-> compareSnapshots(applied.input.a, applied.input.b),
         ba |-> compareSnapshots(applied.input.b, applied.input.a),
         aa |-> compareSnapshots(applied.input.a, applied.input.a)])

\* --------------------------------------------------------- specifications

Empty ==
  /\ snapshots = <<>>
  /\ changes = <<>>
  /\ checks = 0
  /\ last = Idle
  /\ batch = NoBatch
  /\ pending = NoPending
  /\ fetching = NotFetching
  /\ cron = NoCron

\* one page checked by checkPage, default thresholds:
\* every text and price against every previous one, every collaborator
\* outcome, every failing store call
PipelineInputs ==
  [scrapes |-> Scrapes(RawPages, Extracted({"high"}, Prices)),
   sims |-> {NotSimulated}, ais |-> AiOutcomes, mails |-> MailOutcomes, fails |-> StoreFailures]

Init ==
  /\ Empty
  /\ applied = NotApplied
  /\ thresholds = PRICE_CHANGE_THRESHOLDS
  /\ devMode = FALSE
  /\ alertEmail \in BOOLEAN
  /\ active = [p \in Pages |-> TRUE]

Next == CheckPage("p1", MaxChecks, PipelineInputs)

Spec == Init /\ [][Next]_vars

\* The scheduler's worker and checkPage on the same page, in any order.
WorkerInputs ==
  [scrapes |-> Scrapes({T0, TOther}, Extracted({"high"}, {45000, 50000})),
   sims |-> {NotSimulated}, ais |-> {"no_key", "says_high"},
   mails |-> {"delivered", "send_error"},
   fails |-> {"snapshot.create", "page.update", "change.create", "change.update"}]

InitWorker ==
  /\ Empty
  /\ applied = NotApplied
  /\ thresholds = PRICE_CHANGE_THRESHOLDS
  /\ devMode = FALSE
  /\ alertEmail = TRUE
  /\ active \in [Pages -> BOOLEAN]

NextWorker ==
  \/ CheckPage("p1", MaxWorkerChecks, WorkerInputs)
  \/ CheckPageWorker("p1", MaxWorkerChecks, WorkerInputs)

SpecWorker == InitWorker /\ [][NextWorker]_vars

\* the check route and the scheduler checking one page at the same time
RaceInputs ==
  [scrapes |-> Scrapes({T0, TOther}, Extracted({"high"}, {45000, 50000})),
   sims |-> {NotSimulated}, ais |-> {"no_key"}, mails |-> {"delivered"},
   fails |-> {"change.create"}]

InitRace ==
  /\ Empty
  /\ applied = NotApplied
  /\ thresholds = PRICE_CHANGE_THRESHOLDS
  /\ devMode = FALSE
  /\ alertEmail \in BOOLEAN
  /\ active = [p \in Pages |-> TRUE]

NextRace ==
  \/ \E c \in Callers : BeginCheck(c, "p1", MaxRaceChecks, RaceInputs)
  \/ \E c \in Callers : EndCheck(c, RaceInputs)

SpecRace == InitRace /\ [][NextRace]_vars

\* one page checked often enough for its snapshots to pass the retention
\* count: the page shows one of two texts, no price
RetentionInputs ==
  [scrapes |-> {sc \in Scrapes({T0, TOther}, Extracted({}, {})) : sc.ok},
   sims |-> {NotSimulated}, ais |-> {"no_key"}, mails |-> {"delivered"},
   fails |-> {"snapshot.deleteMany"}]

InitRetention ==
  /\ Empty
  /\ applied = NotApplied
  /\ thresholds = PRICE_CHANGE_THRESHOLDS
  /\ devMode = FALSE
  /\ alertEmail = FALSE
  /\ active = [p \in Pages |-> TRUE]

NextRetention == CheckPage("p1", MaxRetentionChecks, RetentionInputs)

SpecRetention == InitRetention /\ [][NextRetention]_vars

\* extractPrice on pages with every combination of candidates: none, in
\* range, out of range, unparseable, an invalid one before a valid one, and
\* the two ends of the range
CandidateLists ==
  {<<>>, <<Some(45000)>>, <<Some(50000)>>, <<Some(9)>>, <<Null>>, <<Some(9), Some(45000)>>,
   <<Some(MAX_PRICE + 10)>>, <<Some(MIN_PRICE)>>, <<Some(MAX_PRICE)>>}

RegexMatches ==
  {<<>>, <<Some(50000)>>, <<Some(0), Some(45000)>>, <<Some(45000), Some(50000)>>,
   <<Some(45000), Some(50000), Some(50000)>>, <<Some(MAX_PRICE + 10)>>}

ExtractPages ==
  [jsonLd : CandidateLists, meta : CandidateLists, selectors : CandidateLists, regex : RegexMatches]

InitExtract ==
  /\ Empty
  /\ applied \in {[fn |-> "none", input |-> page, result |-> <<>>] : page \in ExtractPages}
  /\ thresholds = PRICE_CHANGE_THRESHOLDS
  /\ devMode = FALSE
  /\ alertEmail = FALSE
  /\ active = [p \in Pages |-> TRUE]

NextExtract == ApplyExtractPrice

SpecExtract == InitExtract /\ [][NextExtract]_vars

\* compareSnapshots on every pair of short texts: empty, blank lines (0),
\* repeated lines, shared and unshared lines
RECURSIVE TextsUpTo(_)
TextsUpTo(n) ==
  IF n = 0 THEN {<<>>}
  ELSE LET shorter == TextsUpTo(n - 1)
       IN  shorter \cup {Append(t, l) : t \in {u \in shorter : Len(u) = n - 1}, l \in 0..2}

DiffTexts == TextsUpTo(MaxLines)

InitDiff ==
  /\ Empty
  /\ applied \in {[fn |-> "none", input |-> [a |-> a, b |-> b], result |-> <<>>] :
                    a \in DiffTexts, b \in DiffTexts}
  /\ thresholds = PRICE_CHANGE_THRESHOLDS
  /\ devMode = FALSE
  /\ alertEmail = FALSE
  /\ active = [p \in Pages |-> TRUE]

NextDiff == ApplyCompareSnapshots

SpecDiff == InitDiff /\ [][NextDiff]_vars

\* a page that always shows the price 50.00, found with high confidence,
\* checked by the scheduler and through checkPage in any mix
SteadyInputs ==
  [scrapes |-> {sc \in Scrapes({T0, TOther}, Extracted({"high"}, {50000})) :
                  sc.ok => sc.priceValue.some},
   sims |-> {NotSimulated}, ais |-> {"no_key", "says_high"}, mails |-> {"delivered", "send_error"},
   fails |-> {}]

InitSteady ==
  /\ Empty
  /\ applied = NotApplied
  /\ thresholds = PRICE_CHANGE_THRESHOLDS
  /\ devMode = FALSE
  /\ alertEmail \in BOOLEAN
  /\ active = [p \in Pages |-> TRUE]

NextSteady ==
  \/ CheckPage("p1", MaxSteadyChecks, SteadyInputs)
  \/ CheckPageWorker("p1", MaxSteadyChecks, SteadyInputs)

SpecSteady == InitSteady /\ [][NextSteady]_vars

\* the cron over twenty minutes for a shop with one or two active pages;
\* the intervals are short ones so that several of them fit
CronInputs ==
  [scrapes |-> {sc \in Scrapes({T0, TOther}, Extracted({}, {})) : sc.ok},
   sims |-> {NotSimulated}, ais |-> {"no_key"}, mails |-> {"delivered"}, fails |-> {}]

InitCron ==
  /\ snapshots = <<>>
  /\ changes = <<>>
  /\ checks = 0
  /\ last = Idle
  /\ batch = NoBatch
  /\ pending = NoPending
  /\ fetching = NotFetching
  /\ applied = NotApplied
  /\ cron \in {[NoCron EXCEPT !.checkIntervalMinutes = c, !.maxFrequencyAllowedMinutes = m] :
                 c \in {5, 10}, m \in {5, 15}}
  /\ thresholds = PRICE_CHANGE_THRESHOLDS
  /\ devMode = FALSE
  /\ alertEmail = FALSE
  /\ active \in {a \in [Pages -> BOOLEAN] : a["p1"]}

NextCron ==
  \/ PassMinute
  \/ CronTick
  \/ \E r \in 1..Len(cron.runs) : ShopCheckPage(r, MaxCronChecks, CronInputs)
  \/ \E r \in 1..Len(cron.runs) : FinishShopCheck(r)

SpecCron == InitCron /\ [][NextCron]_vars

\* pruning with another check in between: page p2 is checked once, page p1
\* by checkPage until its snapshots pass the retention count, and the
\* scheduler checks p1 between the two steps of a pruning.  Page p1 shows
\* T0 and TOther in turn while it has fewer than nine snapshots, and either
\* of them after that.
PruneInputs ==
  [scrapes |-> {sc \in Scrapes({T0, TOther}, Extracted({}, {})) :
                  /\ sc.ok
                  /\ LET mine == SnapshotsOf(snapshots, "p1")
                     IN  (Len(mine) > 0 /\ Len(mine) < RetentionCount - 1)
                           => ContentHash(NormalizeText(sc.raw)) # mine[Len(mine)].contentHash},
   sims |-> {NotSimulated}, ais |-> {"no_key"}, mails |-> {"delivered"}, fails |-> {}]

InitPrune ==
  /\ Empty
  /\ applied = NotApplied
  /\ thresholds = PRICE_CHANGE_THRESHOLDS
  /\ devMode = FALSE
  /\ alertEmail = FALSE
  /\ active = [p \in Pages |-> TRUE]

NextPrune ==
  \/ CheckPage("p2", 1, PruneInputs)
  \/ CheckPageFindOld("p1", MaxPruneChecks, PruneInputs)
  \/ DeleteOldSnapshots
  \/ (pending["route"].pc = "pruning" /\ CheckPageWorker("p1", MaxPruneChecks, PruneInputs))

SpecPrune == InitPrune /\ [][NextPrune]_vars

\* the Express application checking one page past its keep count.  The page
\* shows T0 or TOther; between its third and its twenty-ninth snapshot it
\* does not change.
LegacyInputs ==
  [scrapes |-> {sc \in Scrapes({T0, TOther}, Extracted({}, {})) :
                  /\ sc.ok
                  /\ LET mine == SnapshotsOf(snapshots, "p1")
                     IN  (Len(mine) >= 3 /\ Len(mine) < KeepCount - 1)
                           => ContentHash(NormalizeText(sc.raw)) = mine[Len(mine)].contentHash},
   sims |-> {NotSimulated}, ais |-> {"no_key"}, mails |-> {"delivered", "send_error"}, fails |-> {}]

InitLegacy ==
  /\ Empty
  /\ applied = NotApplied
  /\ thresholds = PRICE_CHANGE_THRESHOLDS
  /\ devMode = FALSE
  /\ alertEmail = TRUE
  /\ active = [p \in Pages |-> TRUE]

NextLegacy == CheckPageLegacy("p1", MaxLegacyChecks, LegacyInputs)

SpecLegacy == InitLegacy /\ [][NextLegacy]_vars

\* computePriceDelta on every pair of a few prices, absent ones and 0
\* included, under the default thresholds, both at 0, and two raised settings
DeltaPrices ==
  {Null} \cup {Some(v) : v \in {0, 45000, 50000, 99700, 100000, 100300, 100500, 101500}}

DeltaThresholds ==
  {PRICE_CHANGE_THRESHOLDS, StrictThresholds,
   [minPercentChange |-> 0, minAmountChange |-> 0],
   [minPercentChange |-> 5, minAmountChange |-> 2000]}

InitDelta ==
  /\ Empty
  /\ applied \in {[fn |-> "none",
                    input |-> [oldPrice |-> o, newPrice |-> n, thresholds |-> t],
                    result |-> <<>>] : o \in DeltaPrices, n \in DeltaPrices, t \in DeltaThresholds}
  /\ thresholds = PRICE_CHANGE_THRESHOLDS
  /\ devMode = FALSE
  /\ alertEmail = FALSE
  /\ active = [p \in Pages |-> TRUE]

NextDelta == ApplyComputePriceDelta

SpecDelta == InitDelta /\ [][NextDelta]_vars

\* parsePrice on numbers written with commas, points, both, a blank or
\* neither, alone or with a currency symbol before and a currency code after
PriceNumbers ==
  { <<"1", ",", "2", "3", "4", ".", "5", "6">>, <<"1", ".", "2", "3", "4", ",", "5", "6">>,
    <<"1", "2", "3", "4", ".", "5", "6">>, <<"1", "2", "3", "4", ",", "5", "6">>,
    <<"1", ",", "2", "3">>, <<"1", ",", "2", "3", "4">>, <<"1", "2", ",", "5">>,
    <<"1", "2", ",">>, <<"1", ",", "2", "3", "4", ",", "5", "6", "7">>,
    <<"1", ".", "2", "3", "4", ",", "5">>, <<"1", ",", "2", "3", "4", ".", "5">>,
    <<"1", ".", "2", "3", "4", ".", "5", "6", "7", ",", "8", "9">>,
    <<"1", " ", "2", "3", "4", ",", "5", "6">>, <<"9", "9">>, <<"0", ",", "9", "9">>,
    <<"-", "5", ".", "5", "0">>, <<>> }

PriceStrings ==
  {prefix \o number \o suffix :
     prefix \in {<<>>, <<"$">>, <<"euro">>, <<" ">>},
     number \in PriceNumbers,
     suffix \in {<<>>, <<" ", "E", "U", "R">>, <<" ", "U", "S", "D">>, <<" ", "e", "u", "r">>}}

InitParse ==
  /\ Empty
  /\ applied \in {[fn |-> "none", input |-> str, result |-> <<>>] : str \in PriceStrings}
  /\ thresholds = PRICE_CHANGE_THRESHOLDS
  /\ devMode = FALSE
  /\ alertEmail = FALSE
  /\ active = [p \in Pages |-> TRUE]

NextParse == ApplyParsePrice

SpecParse == InitParse /\ [][NextParse]_vars

\* determineSignificance on diffs of texts from empty to some 230 lines,
\* with changed lines on both sides of 10 %, of 30 % and of 20 lines
DiffShapes ==
  [common : {0, 1, 7, 8, 9, 10, 19, 25, 189, 190, 199, 200, 210},
   removed : {0, 1, 2, 3, 5, 10, 11, 20, 21},
   added : {0, 1, 2, 3, 5, 10, 11, 20, 21}]

InitSignificance ==
  /\ Empty
  /\ applied \in {[fn |-> "none", input |-> shape, result |-> <<>>] : shape \in DiffShapes}
  /\ thresholds = PRICE_CHANGE_THRESHOLDS
  /\ devMode = FALSE
  /\ alertEmail = FALSE
  /\ active = [p \in Pages |-> TRUE]

NextSignificance == ApplyDetermineSignificance

SpecSignificance == InitSignificance /\ [][NextSignificance]_vars

\* moves of 3 % seen with high and with low confidence, from a small and
\* from a larger previous price, under the default thresholds
TierInputs ==
  [scrapes |-> Scrapes({T0, TOther}, Extracted({"high", "low"}, {50000, 51500, 100000, 103000})),
   sims |-> {NotSimulated}, ais |-> {"no_key"}, mails |-> {"delivered"}, fails |-> {}]

InitTier ==
  /\ Empty
  /\ applied = NotApplied
  /\ thresholds = PRICE_CHANGE_THRESHOLDS
  /\ devMode = FALSE
  /\ alertEmail = FALSE
  /\ active = [p \in Pages |-> TRUE]

NextTier == CheckPage("p1", MaxTierChecks, TierInputs)

SpecTier == InitTier /\ [][NextTier]_vars

\* options.timeout = 30000 ms by default, in ticks of ten seconds
DefaultTimeout == 3

\* one Scraper.scrape call under every timing of headers, body and timer
ScrapeTimeouts == {1, 2, DefaultTimeout}

InitScrape ==
  /\ Empty
  /\ applied = NotApplied
  /\ thresholds = PRICE_CHANGE_THRESHOLDS
  /\ devMode = FALSE
  /\ alertEmail = FALSE
  /\ active = [p \in Pages |-> TRUE]

NextScrape ==
  \/ \E timeout \in ScrapeTimeouts : StartScrape(timeout)
  \/ Tick
  \/ \E ok \in BOOLEAN : HeadersArrive(ok)
  \/ NetworkError
  \/ \E raw \in RawPages : BodyArrives(raw)

SpecScrape == InitScrape /\ [][NextScrape]_vars

\* the price decision under every environment: both threshold settings,
\* DEV_MODE on and off, every confidence
EnvInputs ==
  [scrapes |-> Scrapes({T0, TOther}, Extracted(Confidences, Prices)),
   sims |-> SimulatedPrices, ais |-> {"no_key"}, mails |-> {"delivered"}, fails |-> {}]

InitEnv ==
  /\ Empty
  /\ applied = NotApplied
  /\ thresholds \in {PRICE_CHANGE_THRESHOLDS, StrictThresholds}
  /\ devMode \in BOOLEAN
  /\ alertEmail = FALSE
  /\ active = [p \in Pages |-> TRUE]

NextEnv == CheckPage("p1", MaxEnvChecks, EnvInputs)

SpecEnv == InitEnv /\ [][NextEnv]_vars

\* the notified flag over several cycles of one page
NotifyInputs ==
  [scrapes |-> Scrapes({T0, TOther}, Extracted({"high"}, {50000})),
   sims |-> {NotSimulated}, ais |-> {"no_key", "says_high"}, mails |-> MailOutcomes,
   fails |-> {"change.create", "change.update"}]

InitNotify ==
  /\ Empty
  /\ applied = NotApplied
  /\ thresholds = PRICE_CHANGE_THRESHOLDS
  /\ devMode = FALSE
  /\ alertEmail \in BOOLEAN
  /\ active = [p \in Pages |-> TRUE]

NextNotify ==
  \/ CheckPage("p1", MaxNotifyChecks, NotifyInputs)
  \/ CheckPageWorker("p1", MaxNotifyChecks, NotifyInputs)

SpecNotify == InitNotify /\ [][NextNotify]_vars

\* checkCompetitor over the pages of a competitor, between direct checks
BatchInputs ==
  [scrapes |-> Scrapes({T0, TOther}, Extracted({"high"}, {45000, 50000})),
   sims |-> {NotSimulated}, ais |-> {"no_key"}, mails |-> {"delivered"},
   fails |-> {"snapshot.create"}]

InitBatch ==
  /\ Empty
  /\ applied = NotApplied
  /\ thresholds = PRICE_CHANGE_THRESHOLDS
  /\ devMode = FALSE
  /\ alertEmail = FALSE
  /\ active \in [Pages -> BOOLEAN]

NextBatch ==
  \/ \E p \in Pages : CheckPage(p, MaxBatchChecks, BatchInputs)
  \/ StartCheckCompetitor
  \/ CheckCompetitorStep(MaxBatchChecks, BatchInputs)
  \/ FinishCheckCompetitor

SpecBatch == InitBatch /\ [][NextBatch]_vars

\* ------------------------------------------------------------ properties
\* What the latest cycle found in the store and what it left there, read
\* from the rows themselves.

HadSnapshot == SnapshotsOf(last.pre.snapshots, last.pageId) # <<>>

PreviousRow ==
  LET mine == SnapshotsOf(last.pre.snapshots, last.pageId) IN mine[Len(mine)]

NewRow ==
  LET mine == SnapshotsOf(snapshots, last.pageId) IN mine[Len(mine)]

CreatedCount == Len(changes) - Len(last.pre.changes)

CreatedRow == changes[Len(changes)]

Completed(entry) == last.entry = entry /\ ~last.threw

FingerprintDiffers == NewRow.contentHash # PreviousRow.contentHash

\* isMeaningful AND shouldAlert, on the previous snapshot's price and the
\* price the cycle worked with
ExpectedDelta ==
  computePriceDelta(decimalToNumber(PreviousRow.priceValue), last.effectivePrice,
                    getConfidenceAdjustedThresholds(last.confidence, thresholds))

PriceChangeReported ==
  /\ getConfidenceAdjustedThresholds(last.confidence, thresholds).shouldAlert
  /\ ExpectedDelta.isMeaningful

C2_FirstSnapshotCreatesNoChange ==
  (last.entry = "checkPage" /\ last.fetched /\ ~HadSnapshot) =>
    /\ changes = last.pre.changes
    /\ Len(SnapshotsOf(snapshots, last.pageId)) <= 1
    /\ last.failed = "none" =>
         /\ ~last.threw
         /\ Len(SnapshotsOf(snapshots, last.pageId)) = 1
         /\ NewRow.priceValue = ToDecimal(last.effectivePrice)
         /\ last.isFirstSnapshot
         /\ last.change.id = 0
         /\ ~last.priceChange.some

\* a first check that extracted a price
C2_Witness ==
  /\ Completed("checkPage") /\ ~HadSnapshot
  /\ last.isFirstSnapshot
  /\ last.effectivePrice = Some(50000)
  /\ Len(SnapshotsOf(snapshots, last.pageId)) = 1
  /\ changes = <<>>

\* C3: with the fingerprint unchanged and a price change reported, checkPage
\* creates exactly one Change with changeType PRICE_CHANGE, oldPrice the
\* previous snapshot's price and newPrice the price stored in the new
\* snapshot, and returns change = null with priceChange carrying the
\* computed price delta.
C3_PriceOnlyChangeRecord ==
  (Completed("checkPage") /\ HadSnapshot /\ ~FingerprintDiffers /\ PriceChangeReported) =>
    /\ CreatedCount = 1
    /\ CreatedRow.pageId = last.pageId
    /\ CreatedRow.changeType = "PRICE_CHANGE"
    /\ CreatedRow.oldPrice = PreviousRow.priceValue
    /\ CreatedRow.newPrice = NewRow.priceValue
    /\ last.change.id = 0
    /\ last.priceChange.some
    /\ last.priceChange.id = CreatedRow.id
    /\ last.priceChange.priceDelta = ExpectedDelta

\* content unchanged, the price moving from 50.00 to 45.00
C3_Witness ==
  /\ Completed("checkPage") /\ HadSnapshot /\ ~FingerprintDiffers
  /\ PreviousRow.priceValue = Some(50000) /\ NewRow.priceValue = Some(45000)
  /\ CreatedCount = 1
  /\ CreatedRow.changeType = "PRICE_CHANGE"
  /\ CreatedRow.oldPrice = Some(50000) /\ CreatedRow.newPrice = Some(45000)
  /\ last.priceChange.priceDelta.deltaPercent = Some(-1000)

\* C4: checkPage reports a price change iff the confidence is not none and
\* the delta is meaningful under the adjusted thresholds: the base ones for
\* high and medium, max(base percent, 5) and max(base amount, 2.00) for low.
C4_PriceChangeReportedIffMeaningfulAndAlerting ==
  (Completed("checkPage") /\ HadSnapshot) =>
    LET low == last.confidence = "low"
        adjusted == [minPercentChange |-> IF low THEN Max(thresholds.minPercentChange, 5)
                                          ELSE thresholds.minPercentChange,
                     minAmountChange |-> IF low THEN Max(thresholds.minAmountChange, 2000)
                                         ELSE thresholds.minAmountChange]
        delta == computePriceDelta(decimalToNumber(PreviousRow.priceValue), last.effectivePrice, adjusted)
    IN  last.priceChange.some <=> (last.confidence # "none" /\ delta.isMeaningful)

\* 50.00 to 45.00 read with low confidence under thresholds of 20 % and
\* 10.00: meaningful for the base tier's floors alone, and not reported
C4_Witness ==
  /\ Completed("checkPage") /\ HadSnapshot
  /\ last.confidence = "low"
  /\ thresholds = StrictThresholds
  /\ PreviousRow.priceValue = Some(50000) /\ last.effectivePrice = Some(45000)
  /\ ~last.priceChange.some

\* C5: no persisted Change has significance none.
C5_NoChangeWithSignificanceNone ==
  \A i \in DOMAIN changes : changes[i].significance \in {"low", "medium", "high"}

\* C6: every Change of the price-only path (PRICE_CHANGE with the
\* fingerprint unchanged) has significance at least medium.
C6_PriceOnlyAtLeastMedium ==
  \A i \in DOMAIN changes :
    (changes[i].changeType = "PRICE_CHANGE" /\ changes[i].oldContentHash = changes[i].newContentHash)
      => SigRank(changes[i].significance) >= SigRank("medium")

\* C7: a Change created by the latest cycle is notified only if that cycle's
\* sendChangeAlert returned sent = true, so not without an alert email and
\* not after a failed send; the Changes persisted before the cycle are
\* field for field what they were, notified included.
C7_NotifiedOnlyAfterSentAndRowsImmutable ==
  /\ Len(changes) >= Len(last.pre.changes)
  /\ \A i \in 1..Len(last.pre.changes) : changes[i] = last.pre.changes[i]
  /\ \A i \in (Len(last.pre.changes) + 1)..Len(changes) :
       /\ changes[i].notified => (alertEmail /\ last.mailCalled /\ last.sent)
       /\ (last.sent /\ last.failed = "none") => changes[i].notified

\* a notified Change kept as it was by a later cycle whose send failed
C7_Witness ==
  /\ Len(changes) = 2
  /\ Len(last.pre.changes) = 1
  /\ changes[1].notified
  /\ last.mailCalled /\ ~last.sent
  /\ ~changes[2].notified

C9_BatchIsolatesPageFailures ==
  /\ [](/\ batch.pc # "idle" =>
            /\ batch.pages = ActivePages
            /\ Len(batch.results) <= Len(batch.pages)
            /\ \A i \in 1..Len(batch.results) : batch.results[i].pageId = batch.pages[i]
        /\ batch.pc = "done" =>
            /\ Len(batch.results) = Len(ActivePages)
            /\ batch.checked = Len(ActivePages)
            /\ batch.changes = Len(SelectSeq(batch.results, LAMBDA r : r.change \/ r.priceChange)))
  /\ [][(batch.pc = "running" /\ batch'.results # batch.results) =>
          LET n == Len(batch.results) + 1
          IN  /\ batch'.results = Append(batch.results, batch'.results[n])
              /\ checks' = checks + 1
              /\ last'.entry = "checkPage"
              /\ last'.pageId = batch.pages[n]
              /\ batch'.results[n].error = last'.threw
              /\ batch'.results[n].change = (~last'.threw /\ last'.change.id # 0)
              /\ batch'.results[n].priceChange = (~last'.threw /\ last'.priceChange.some)
              /\ batch'.pc = "running"]_vars

\* two active pages: the first page's check failed, the second page's check
\* reported a price change alone
C9_Witness ==
  /\ batch.pc = "done"
  /\ Len(batch.results) = 2
  /\ batch.results[1].error
  /\ ~batch.results[2].error /\ ~batch.results[2].change /\ batch.results[2].priceChange
  /\ batch.checked = 2
  /\ batch.changes = 1

\* C10: a cycle in which the snapshot or the Change could not be persisted
\* ends in an error for its caller, in checkPage and in checkPageWorker.
C10_StoreFailureSurfaced ==
  last.failed \in {"snapshot.create", "change.create"} => last.threw

\* the snapshots of the latest cycle's page as the store holds them, in
\* capture order
PageSnapshots == SnapshotsOf(snapshots, last.pageId)

\* the latest cycle stored a snapshot, which is the newest one of its page
StoredSnapshot ==
  /\ last.entry # "none"
  /\ PageSnapshots # <<>>
  /\ PageSnapshots[Len(PageSnapshots)].id = checks

\* the id of the snapshot captured just before the one the latest cycle
\* stored, 0 when there is none
PredecessorId ==
  IF Len(PageSnapshots) >= 2 THEN PageSnapshots[Len(PageSnapshots) - 1].id ELSE 0

\* C11: every check that stores a snapshot compared it against the snapshot
\* of the page captured just before it, never against an older one.
C11_ComparedAgainstLatestPrior ==
  StoredSnapshot => last.compared = PredecessorId

\* C12: after any completed check of a page, at most 10 snapshots of the
\* page are stored.
C12_AtMostTenSnapshotsAfterCheck ==
  (last.entry # "none" /\ ~last.threw) => Len(PageSnapshots) <= RetentionCount

MovedThreePercent ==
  /\ Completed("checkPage") /\ HadSnapshot
  /\ PreviousRow.priceValue.some /\ last.effectivePrice.some
  /\ Abs(last.effectivePrice.v - PreviousRow.priceValue.v) * 100 = 3 * PreviousRow.priceValue.v

\* C14: under the default thresholds a move of 3 % seen with low confidence
\* reports no price change, whatever the previous price, and seen with high
\* confidence it reports one.
C14_ThreePercentAtLowConfidenceSuppressed ==
  (MovedThreePercent /\ thresholds = PRICE_CHANGE_THRESHOLDS) =>
    /\ last.confidence = "low" => ~last.priceChange.some
    /\ last.confidence = "high" => last.priceChange.some


\* ---- Scraper.scrape and its timeout ----

ScrapeInProgress == fetching.pc \in {"fetching", "reading"}

ScrapeEnded == fetching.pc \in {"returned", "failed"}

\* C15: Scraper.scrape never runs past its timeout: while the call is still
\* waiting the elapsed time is below the timeout, a call ended by the timer
\* has aborted the request and fails with the timeout error, and the timer is
\* cleared whenever the call has ended.
C15_ScrapeEndsWithinTimeout ==
  /\ ScrapeInProgress => fetching.elapsed < fetching.timeout
  /\ (ScrapeEnded /\ fetching.aborted) => (fetching.pc = "failed" /\ fetching.error = "timeout")
  /\ ScrapeEnded => fetching.timer = "cleared"

\* the parts of C15 that the code does keep
C15_TimerClearedAndAbortReported ==
  /\ (ScrapeEnded /\ fetching.aborted) => (fetching.pc = "failed" /\ fetching.error = "timeout")
  /\ ScrapeEnded => fetching.timer = "cleared"
  /\ (ScrapeInProgress /\ fetching.timer = "armed") => fetching.elapsed < fetching.timeout


\* ---- the shape of persisted Change rows ----

PriceFields(c) == <<c.oldPrice, c.newPrice, c.priceDelta, c.priceDeltaPct>>

\* C16: every persisted Change has changeType CONTENT or PRICE_CHANGE,
\* whichever entry point created it; the four price fields are null on a
\* CONTENT change, and a PRICE_CHANGE change has an old or a new price.
C16_ChangeTypeAndPriceFields ==
  \A i \in 1..Len(changes) :
    LET c == changes[i]
    IN  /\ c.changeType \in {"CONTENT", "PRICE_CHANGE"}
        /\ c.changeType = "CONTENT" => PriceFields(c) = <<Null, Null, Null, Null>>
        /\ c.changeType = "PRICE_CHANGE" => (c.oldPrice.some \/ c.newPrice.some)


\* ---- compareSnapshots as a relation on texts ----

\* C17: compareSnapshots(A, A) reports no changes and a ratio of 0 over a
\* divisor that is never 0, for every text A, the empty one included; and what
\* compareSnapshots(A, B) reports as added is what compareSnapshots(B, A)
\* reports as removed, and the other way round.
C17_IdempotentAndSymmetric ==
  applied.fn = "compareSnapshots" =>
    LET r == applied.result
    IN  /\ ~r.aa.hasChanges
        /\ r.aa.added = <<>> /\ r.aa.removed = <<>>
        /\ r.aa.ratioNum = 0
        /\ r.aa.ratioDen >= 1
        /\ r.ab.added = r.ba.removed
        /\ r.ab.removed = r.ba.added

\* an empty text (one blank line) against a text with a repeated line
C17_Witness ==
  /\ applied.fn = "compareSnapshots"
  /\ applied.input = [a |-> <<0>>, b |-> <<1, 1, 2>>]
  /\ applied.result.ab.added = <<1, 1, 2>>
  /\ applied.result.ba.removed = <<1, 1, 2>>
  /\ applied.result.aa.ratioDen = 1


\* ---- transitions between consecutive snapshots and the Changes recording them ----

\* a Change of the page recording the transition between the two fingerprints
TransitionRecorded(pageId, old, new) ==
  \E i \in 1..Len(changes) :
    /\ changes[i].pageId = pageId
    /\ changes[i].oldContentHash = old.contentHash
    /\ changes[i].newContentHash = new.contentHash

\* C18: no detected change is lost.  A stored snapshot whose fingerprint
\* differs from that of the snapshot captured just before it has a Change
\* recording the transition, at the latest once the next check has stored its
\* own snapshot, whatever failed in the check that stored it.
C18_NoDetectedChangeLost ==
  \A p \in Pages :
    LET stored == SnapshotsOf(snapshots, p)
    IN  \A k \in 2..Len(stored) :
          (stored[k - 1].contentHash # stored[k].contentHash /\ k < Len(stored))
            => TransitionRecorded(p, stored[k - 1], stored[k])


\* the Changes of the page that pair these two fingerprints
ChangesPairing(pageId, old, new) ==
  {i \in 1..Len(changes) :
     /\ changes[i].pageId = pageId
     /\ changes[i].oldContentHash = old
     /\ changes[i].newContentHash = new}

\* the places in the page's capture order where a snapshot with the second
\* fingerprint follows one with the first; between equal fingerprints only a
\* change of the stored price is a transition
TransitionsPairing(pageId, old, new) ==
  LET stored == SnapshotsOf(snapshots, pageId)
  IN  {k \in 2..Len(stored) :
         /\ stored[k - 1].contentHash = old
         /\ stored[k].contentHash = new
         /\ old = new => stored[k - 1].priceValue # stored[k].priceValue}

\* C19: also when checks of one page interleave, each Change pairs the
\* fingerprints of two snapshots that are consecutive in the page's capture
\* order, and a transition between consecutive snapshots has at most one
\* Change: there are never more Changes pairing two fingerprints than places
\* where the one follows the other.
C19_OneChangePerConsecutivePair ==
  \A i \in 1..Len(changes) :
    LET c == changes[i]
    IN  Cardinality(ChangesPairing(c.pageId, c.oldContentHash, c.newContentHash))
          <= Cardinality(TransitionsPairing(c.pageId, c.oldContentHash, c.newContentHash))


\* ---- significance on the content-change path ----

SignificanceRank(significance) ==
  CASE significance = "none" -> 0
    [] significance = "low" -> 1
    [] significance = "medium" -> 2
    [] significance = "high" -> 3

LastDiff == compareSnapshots(PreviousRow.textContent, NewRow.textContent)

\* C20: on the content-change path the Change carries the analyzer's verdict
\* when it is high, medium or low, and otherwise determineSignificance(diff),
\* raised to medium exactly when it is low and a price change is reported; and
\* for the diff at hand and any analyzer verdict, the significance with a
\* reported price change is never below the one without.
C20_ContentSignificanceAndElevation ==
  (last.entry = "checkPage" /\ HadSnapshot /\ FingerprintDiffers /\ CreatedCount = 1) =>
    LET local == determineSignificance(LastDiff)
    IN  /\ CreatedRow.significance =
             IF last.analysis \in {"high", "medium", "low"} THEN last.analysis
             ELSE IF local = "low" /\ PriceChangeReported THEN "medium"
             ELSE local
        /\ \A ai \in AiOutcomes :
             SignificanceRank(ContentSignificance(LastDiff, TRUE, analyzeChanges(ai)))
               >= SignificanceRank(ContentSignificance(LastDiff, FALSE, analyzeChanges(ai)))

\* a wholly different text together with a reported price change, the
\* analyzer unavailable: the diff's high is kept
C20_Witness ==
  /\ Completed("checkPage") /\ HadSnapshot
  /\ FingerprintDiffers /\ PriceChangeReported
  /\ last.analysis = "unknown"
  /\ determineSignificance(LastDiff) = "high"
  /\ CreatedCount = 1
  /\ CreatedRow.significance = "high"


\* ---- a page that does not change ----

\* every check that stored a snapshot of the page saw the same content
SameContentAtEveryCheck(pageId) ==
  LET stored == SnapshotsOf(snapshots, pageId)
  IN  \A i, j \in 1..Len(stored) : stored[i].contentHash = stored[j].contentHash

\* C21: a page whose content and extracted price are the same at every check
\* never gets a Change, whatever mix of checkPageWorker runs and checkPage
\* calls checks it.  (Under SpecSteady the extracted price is 50.00 at every
\* check.)
C21_SteadyPageCreatesNoChange ==
  SameContentAtEveryCheck("p1") => \A i \in 1..Len(changes) : changes[i].pageId # "p1"


\* ---- the distance between automatic checks of a shop ----

EffectiveIntervalMinutes == Max(cron.checkIntervalMinutes, cron.maxFrequencyAllowedMinutes)

\* C22: two automatic checks of the shop never start less than
\* max(checkIntervalMinutes, maxFrequencyAllowedMinutes) minutes apart, also
\* when a tick fires while the run of an earlier tick is still in progress.
C22_AutoChecksAtLeastIntervalApart ==
  \A i \in 2..Len(cron.starts) : cron.starts[i] - cron.starts[i - 1] >= EffectiveIntervalMinutes


\* ---- what pruning removes ----

\* the snapshots a step removes from the store
RemovedSnapshots == {s \in Range(snapshots) : \A i \in 1..Len(snapshots') : snapshots'[i].id # s.id}

\* the page whose snapshots the step prunes
PrunedPage ==
  IF pending["route"].pc = "pruning" /\ pending'["route"].pc = "idle"
  THEN pending["route"].pageId
  ELSE last'.pageId

\* C23: pruning deletes only snapshots of the given page and none of the 10
\* captured last, so never the most recent one, also when another check of
\* the page stores a snapshot between the reading of the old ids and their
\* deletion: every snapshot removed is of the pruned page and at least 10
\* snapshots of that page captured after it are in the store.
C23_PruningKeepsLatestTen ==
  [][\A s \in RemovedSnapshots :
       /\ s.pageId = PrunedPage
       /\ Cardinality({t \in Range(SnapshotsOf(snapshots, PrunedPage))
                              \cup Range(SnapshotsOf(snapshots', PrunedPage)) : t.id > s.id})
            >= RetentionCount]_vars

\* the oldest snapshot of p1 is gone and eleven are left: the scheduler
\* stored one between checkPage's findMany and its deleteMany
C23_Witness ==
  /\ pending["route"].pc = "idle"
  /\ last.entry = "checkPageWorker"
  /\ Len(SnapshotsOf(snapshots, "p1")) = RetentionCount + 1
  /\ Len(SnapshotsOf(snapshots, "p2")) = 1
  /\ SnapshotsOf(snapshots, "p1")[1].id = 3


\* ---- Change rows under pruning ----

\* a Change row but for its notified flag
Unflagged(c) == [c EXCEPT !.notified = FALSE]

\* C24: pruning snapshots never deletes or modifies a Change: the Changes
\* are only ever appended to, and a step leaves every Change there was in its
\* place and the same but for its notified flag, also a Change derived from a
\* snapshot that the step prunes.
C24_ChangesOnlyAppended ==
  [][/\ Len(changes') >= Len(changes)
     /\ \A i \in 1..Len(changes) :
          i <= Len(changes') => Unflagged(changes'[i]) = Unflagged(changes[i])]_vars


\* ---- computePriceDelta as a function ----

\* the percentage, in hundredths of a percent, is deltaAmount / old * 100
\* cut to two decimals
IsPercentOf(percent, deltaAmount, old) ==
  /\ (percent >= 0) = (deltaAmount >= 0) \/ percent = 0
  /\ Abs(percent) * old <= Abs(deltaAmount) * 10000
  /\ Abs(deltaAmount) * 10000 < (Abs(percent) + 1) * old

\* C25: computePriceDelta(old, new, thresholds): both null gives null delta
\* fields, not meaningful, direction unknown; one null gives null delta
\* fields, meaningful, direction unknown; both present gives deltaAmount =
\* new - old, deltaPercent = deltaAmount / old * 100 or null when old is 0,
\* meaningful iff |deltaAmount| >= minAmountChange or |deltaPercent| >=
\* minPercentChange (a null percentage counting as 0), and the direction by
\* the sign of deltaAmount.  Under (1 %, 0.50), 100.00 -> 100.30 is not
\* meaningful and 100.00 -> 101.50 is.
C25_PriceDeltaAsSpecified ==
  /\ ~computePriceDelta(Some(100000), Some(100300),
                        [minPercentChange |-> 1, minAmountChange |-> 500]).isMeaningful
  /\ computePriceDelta(Some(100000), Some(101500),
                       [minPercentChange |-> 1, minAmountChange |-> 500]).isMeaningful
  /\ applied.fn = "computePriceDelta" =>
       LET old == applied.input.oldPrice
           new == applied.input.newPrice
           t == applied.input.thresholds
           r == applied.result
       IN  /\ r.oldPrice = old /\ r.newPrice = new
           /\ (~old.some /\ ~new.some) =>
                /\ ~r.deltaAmount.some /\ ~r.deltaPercent.some
                /\ ~r.isMeaningful /\ r.direction = "unknown"
           /\ (old.some # new.some) =>
                /\ ~r.deltaAmount.some /\ ~r.deltaPercent.some
                /\ r.isMeaningful /\ r.direction = "unknown"
           /\ (old.some /\ new.some) =>
                /\ r.deltaAmount = Some(new.v - old.v)
                /\ r.deltaPercent.some = (old.v # 0)
                /\ old.v # 0 => IsPercentOf(r.deltaPercent.v, new.v - old.v, old.v)
                /\ r.isMeaningful =
                     (\/ Abs(new.v - old.v) >= t.minAmountChange
                      \/ (IF old.v # 0 THEN Abs(new.v - old.v) * 100 >= t.minPercentChange * old.v
                          ELSE 0 >= t.minPercentChange))
                /\ r.direction = (IF new.v > old.v THEN "increase"
                                  ELSE IF new.v < old.v THEN "decrease" ELSE "unchanged")

\* 100.00 -> 100.50 under the default thresholds: half a percent, and
\* meaningful by the amount alone
C25_Witness ==
  /\ applied.fn = "computePriceDelta"
  /\ applied.input = [oldPrice |-> Some(100000), newPrice |-> Some(100500),
                      thresholds |-> [minPercentChange |-> 1, minAmountChange |-> 500]]
  /\ applied.result.deltaAmount = Some(500)
  /\ applied.result.deltaPercent = Some(50)
  /\ applied.result.isMeaningful
  /\ applied.result.direction = "increase"


\* C26: computePriceDelta never returns isMeaningful together with direction
\* unchanged: equal old and new prices are never a meaningful price change,
\* for every non-negative threshold setting, thresholds of 0 included.
C26_UnchangedNeverMeaningful ==
  applied.fn = "computePriceDelta" =>
    ~(applied.result.isMeaningful /\ applied.result.direction = "unchanged")


\* ---- compareSnapshots against its description ----

\* the distinct non-empty lines of a text
DistinctLines(text) == {text[i] : i \in 1..Len(text)} \ {0}

\* C27: compareSnapshots(old, new): added is the set of distinct non-empty
\* lines of new that are absent from old, removed the set of distinct
\* non-empty lines of old absent from new, so that a repeated line counts once
\* in addedCount and removedCount; changeRatio = (|added| + |removed|) /
\* max(|oldLines|, |newLines|, 1); hasChanges iff one of the two is not empty.
C27_AddedAndRemovedAreSetsOfDistinctLines ==
  applied.fn = "compareSnapshots" =>
    LET old == applied.input.a
        new == applied.input.b
        r == applied.result.ab
        added == DistinctLines(new) \ DistinctLines(old)
        removed == DistinctLines(old) \ DistinctLines(new)
    IN  /\ Range(r.added) = added
        /\ Range(r.removed) = removed
        /\ r.addedCount = Cardinality(added)
        /\ r.removedCount = Cardinality(removed)
        /\ r.ratioNum = Cardinality(added) + Cardinality(removed)
        /\ r.ratioDen = Max(Max(r.totalOldLines, r.totalNewLines), 1)
        /\ r.hasChanges = (added # {} \/ removed # {})

\* the same with the counts as the code takes them: every occurrence of a
\* line that the other side does not have
C27_AddedAndRemovedCountOccurrences ==
  applied.fn = "compareSnapshots" =>
    LET old == applied.input.a
        new == applied.input.b
        r == applied.result.ab
    IN  /\ Range(r.added) = DistinctLines(new) \ DistinctLines(old)
        /\ Range(r.removed) = DistinctLines(old) \ DistinctLines(new)
        /\ r.addedCount = Cardinality({i \in 1..Len(new) : new[i] # 0 /\ new[i] \notin DistinctLines(old)})
        /\ r.removedCount = Cardinality({i \in 1..Len(old) : old[i] # 0 /\ old[i] \notin DistinctLines(new)})
        /\ r.ratioNum = r.addedCount + r.removedCount
        /\ r.hasChanges = (r.ratioNum > 0)


\* ---- determineSignificance as a function of the diff ----

ChangedLines(shape) == shape.removed + shape.added

LongerSide(shape) == Max(Max(shape.common + shape.removed, shape.common + shape.added), 1)

\* C28: determineSignificance returns none for a diff without changes,
\* otherwise high when changeRatio > 0.30, medium when 0.10 < changeRatio <=
\* 0.30, medium when changeRatio <= 0.10 and more than 20 lines were added or
\* removed, and low in every other case.
C28_SignificanceTiers ==
  applied.fn = "determineSignificance" =>
    LET n == ChangedLines(applied.input)
        d == LongerSide(applied.input)
    IN  applied.result =
          (IF n = 0 THEN "none"
           ELSE IF 100 * n > 30 * d THEN "high"
           ELSE IF 100 * n > 10 * d THEN "medium"
           ELSE IF n > 20 THEN "medium"
           ELSE "low")

\* 21 changed lines of 211: under 10 %, and medium by the number of lines
C28_Witness ==
  /\ applied.fn = "determineSignificance"
  /\ applied.input = [common |-> 200, removed |-> 10, added |-> 11]
  /\ applied.result = "medium"

\* C29: for fixed old and new line counts, more changed lines never give a
\* lower tier, in the order none < low < medium < high: the tier of the diff
\* at hand is not above the tier of any diff between texts of the same
\* lengths with at least as many changed lines.
C29_SignificanceMonotone ==
  applied.fn = "determineSignificance" =>
    \A other \in DiffShapes :
      (/\ other.common + other.removed = applied.input.common + applied.input.removed
       /\ other.common + other.added = applied.input.common + applied.input.added
       /\ ChangedLines(other) >= ChangedLines(applied.input))
        => SignificanceRank(SignificanceOf(other)) >= SignificanceRank(applied.result)

\* 10 changed lines between texts of 30 lines are high, and 22 changed lines
\* between texts of 30 lines are not less
C29_Witness ==
  /\ applied.fn = "determineSignificance"
  /\ applied.input = [common |-> 25, removed |-> 5, added |-> 5]
  /\ applied.result = "high"
  /\ SignificanceOf([common |-> 19, removed |-> 11, added |-> 11]) = "high"


\* ---- parsePrice and the separators ----

\* the numeric part of a price string, as parsePrice cuts it out
NumericPartOf(priceString) == trim(NumericChars(trim(priceString)))

\* a number written with digits, commas and points only
PlainNumber(numericPart) ==
  /\ numericPart # <<>>
  /\ \A i \in 1..Len(numericPart) : numericPart[i] \in DigitChars \union {",", "."}

\* the number read by the stated rule: with both separators the right-most
\* one is the decimal marker and the others are dropped; a lone comma is the
\* decimal marker when exactly two digits follow it, and commas are dropped
\* otherwise
StatedReading(numericPart) ==
  LET separators == IndicesOf(numericPart, ",") \union IndicesOf(numericPart, ".")
      marker == CHOOSE i \in separators : \A j \in separators : j <= i
      digitsOf(str) == SelectSeq(str, LAMBDA c : c \in DigitChars)
  IN  IF IndicesOf(numericPart, ",") # {} /\ IndicesOf(numericPart, ".") # {}
      THEN digitsOf(SubSeq(numericPart, 1, marker - 1)) \o <<".">>
             \o digitsOf(SubSeq(numericPart, marker + 1, Len(numericPart)))
      ELSE IF IndicesOf(numericPart, ",") # {}
      THEN IF Cardinality(IndicesOf(numericPart, ",")) = 1
                /\ Len(numericPart) - lastIndexOf(numericPart, ",") = 2
           THEN ReplaceFirstComma(numericPart)
           ELSE Without(numericPart, ",")
      ELSE numericPart

\* C30: parsePrice reads the separators of the numeric part as stated: with
\* both ',' and '.', the right-most is the decimal marker and the other is
\* dropped; with ',' only, the comma is the decimal marker if and only if
\* exactly two digits follow it, and a thousands separator otherwise.
C30_SeparatorsAsStated ==
  (applied.fn = "parsePrice" /\ PlainNumber(NumericPartOf(applied.input))) =>
    /\ applied.result.some
    /\ Some(applied.result.v.value) = parseFloat(StatedReading(NumericPartOf(applied.input)))

\* 1234.56
CanonicalValue == [negative |-> FALSE, units |-> 1234, decimals |-> <<"5", "6">>]

\* C30, the three strings: "$1,234.56", "1.234,56 EUR" and "1234.56" parse to
\* 1234.56, the first in USD and the second in EUR.
C30_CanonicalStringsParse ==
  applied.fn = "parsePrice" =>
    /\ applied.input = <<"$", "1", ",", "2", "3", "4", ".", "5", "6">>
         => applied.result = Some([value |-> CanonicalValue, currency |-> Some("USD")])
    /\ applied.input = <<"1", ".", "2", "3", "4", ",", "5", "6", " ", "E", "U", "R">>
         => applied.result = Some([value |-> CanonicalValue, currency |-> Some("EUR")])
    /\ applied.input = <<"1", "2", "3", "4", ".", "5", "6">>
         => (applied.result.some /\ applied.result.v.value = CanonicalValue)

\* a comma followed by one digit, read as the decimal marker: "12,5" is 12.5
C30_OneDigitAfterComma ==
  /\ applied.fn = "parsePrice"
  /\ applied.input = <<"1", "2", ",", "5">>
  /\ applied.result.some
  /\ applied.result.v.value = [negative |-> FALSE, units |-> 12, decimals |-> <<"5">>]

====
